---- MODULE Spec2Model ----
(***************************************************************************)
(* Ribbon (src/src/modules/ribbon.js): the segmented ribbon mesh built     *)
(* from a point sequence, its rebuilds, updates and disposal.              *)
(*                                                                         *)
(* Numbers.  A JavaScript number is modelled in fixed point: the integer n *)
(* stands for n / FP.  A vector is a triple <<x, y, z>> of such integers.  *)
(* A curve parameter t is an exact fraction <<n, d>>, because the code     *)
(* takes differences of curve points 0.002 apart.                          *)
(***************************************************************************)
EXTENDS Integers, Sequences, FiniteSets, TLC

FP == 10 * 100

Abs(a) == IF a < 0 THEN -a ELSE a
Max(a, b) == IF a >= b THEN a ELSE b
Min(a, b) == IF a <= b THEN a ELSE b

(* a / b rounded to the nearest integer, for b > 0 *)
RDiv(a, b) == IF a >= 0 THEN (a + b \div 2) \div b ELSE -((-a + b \div 2) \div b)

(* Math.ceil(a / b) as an integer, for b > 0 *)
CeilDiv(a, b) == -((-a) \div b)

RECURSIVE SqrtIter(_, _)
SqrtIter(n, x) ==
    LET y == (x + n \div x) \div 2
    IN  IF y >= x THEN x ELSE SqrtIter(n, y)

(* floor(sqrt(n)) *)
Isqrt(n) ==
    IF n <= 0 THEN 0
    ELSE SqrtIter(n, IF n < 100 THEN 10
                     ELSE IF n < 10000 THEN 100
                     ELSE IF n < 1000000 THEN 1000
                     ELSE IF n < 100000000 THEN 10000
                     ELSE 46341)

RECURSIVE GCD(_, _)
GCD(a, b) == IF b = 0 THEN a ELSE GCD(b, a % b)

ZeroVec == <<0, 0, 0>>
VSub(a, b) == <<a[1] - b[1], a[2] - b[2], a[3] - b[3]>>
VAdd(a, b) == <<a[1] + b[1], a[2] + b[2], a[3] + b[3]>>
VNeg(a) == <<-a[1], -a[2], -a[3]>>
MaxAbs(v) == Max(Abs(v[1]), Max(Abs(v[2]), Abs(v[3])))
LengthSq(v) == v[1] * v[1] + v[2] * v[2] + v[3] * v[3]
VLength(v) == Isqrt(LengthSq(v))
DistanceTo(a, b) == VLength(VSub(a, b))

(* Vector3.normalize: divideScalar(length() || 1); the zero vector stays zero.
   The vector is first brought to a magnitude of about 10^4 (its direction
   kept), so that its squared length fits an integer. *)
Shrink(v, d) == <<RDiv(v[1], d), RDiv(v[2], d), RDiv(v[3], d)>>
Grow(v, k) == <<v[1] * k, v[2] * k, v[3] * k>>
RescaleFrom(v, m) ==
    IF m > 10000 THEN Shrink(v, m \div 10000 + 1) ELSE Grow(v, 10000 \div m)
Rescale(v) == RescaleFrom(v, MaxAbs(v))

DivideScalar(w, len) == <<RDiv(w[1] * FP, len), RDiv(w[2] * FP, len), RDiv(w[3] * FP, len)>>
UnitOf(w) == DivideScalar(w, VLength(w))

Normalize(v) == IF v = ZeroVec THEN ZeroVec ELSE UnitOf(Rescale(v))

Cross(a, b) ==
    << RDiv(a[2] * b[3] - a[3] * b[2], FP),
       RDiv(a[3] * b[1] - a[1] * b[3], FP),
       RDiv(a[1] * b[2] - a[2] * b[1], FP) >>

Dot(a, b) == RDiv(a[1] * b[1] + a[2] * b[2] + a[3] * b[3], FP)

(* Vector3.lerp(v, alpha): this += (v - this) * alpha *)
Lerp(a, v, alpha) ==
    << a[1] + RDiv((v[1] - a[1]) * alpha, FP),
       a[2] + RDiv((v[2] - a[2]) * alpha, FP),
       a[3] + RDiv((v[3] - a[3]) * alpha, FP) >>

AddScaledVector(p, v, s) ==
    << p[1] + RDiv(v[1] * s, FP),
       p[2] + RDiv(v[2] * s, FP),
       p[3] + RDiv(v[3] * s, FP) >>


(* ---------------------------------------------------------------------- *)
(* Math.sin, by Bhaskara's rational approximation, on fixed-point radians  *)

PI == RDiv(FP * 355, 113)

SinHalfTurn(y) ==
    LET q4 == 4 * y * (PI - y)
    IN  RDiv(((4 * q4) \div 40) * FP, (5 * PI * PI - q4) \div 40)

Sin(a) ==
    LET r == a % (2 * PI)
    IN  IF r <= PI THEN SinHalfTurn(r) ELSE -SinHalfTurn(r - PI)

Cos(a) == Sin(a + PI \div 2)

(* Vector3.applyAxisAngle(axis, angle): Quaternion.setFromAxisAngle
   (q.xyz = axis * sin(angle / 2), q.w = cos(angle / 2)), then applyQuaternion
   (t = 2 * cross(q.xyz, v); v + q.w * t + cross(q.xyz, t)) *)
MultiplyScalar(v, s) == <<RDiv(v[1] * s, FP), RDiv(v[2] * s, FP), RDiv(v[3] * s, FP)>>
Twice(v) == <<2 * v[1], 2 * v[2], 2 * v[3]>>
QuaternionSum(v, qw, t, u) ==
    << v[1] + RDiv(qw * t[1], FP) + u[1],
       v[2] + RDiv(qw * t[2], FP) + u[2],
       v[3] + RDiv(qw * t[3], FP) + u[3] >>
QuaternionTurn(v, q, qw, t) == QuaternionSum(v, qw, t, Cross(q, t))
ApplyQuaternion(v, q, qw) == QuaternionTurn(v, q, qw, Twice(Cross(q, v)))
SetFromAxisAngle(v, axis, halfAngle) ==
    ApplyQuaternion(v, MultiplyScalar(axis, Sin(halfAngle)), Cos(halfAngle))
ApplyAxisAngle(v, axis, angle) == SetFromAxisAngle(v, axis, RDiv(angle, 2))

(* ---------------------------------------------------------------------- *)
(* Fractions <<n, d>>, d > 0, in lowest terms                              *)

Frac(n, d) == LET g == GCD(Abs(n), d) IN IF g = 0 THEN <<0, 1>> ELSE <<n \div g, d \div g>>
FracAdd(a, b) == Frac(a[1] * b[2] + b[1] * a[2], a[2] * b[2])
FracSub(a, b) == Frac(a[1] * b[2] - b[1] * a[2], a[2] * b[2])
FracMul(a, b) == Frac(a[1] * b[1], a[2] * b[2])

(* ---------------------------------------------------------------------- *)
(* createCurveFromPoints                                                   *)

(* curve.getPoint(t): i = t * (N - 1), a = floor(i), b = min(ceil(i), N - 1),
   lerpVectors(points[a], points[b], i - a).  Sequences are 1-based.       *)
(* variant: the nearest index, Math.round instead of Math.floor *)
CurveIndexNearest(points, t) == (2 * t[1] * (Len(points) - 1) + t[2]) \div (2 * t[2])

CurveIndexA(points, t) == (t[1] * (Len(points) - 1)) \div t[2]
CurveIndexB(points, t) ==
    Min(CeilDiv(t[1] * (Len(points) - 1), t[2]), Len(points) - 1)
CurveRemainder(points, t) == t[1] * (Len(points) - 1) - CurveIndexA(points, t) * t[2]

LerpVectors(p1, p2, r, d) ==
    << p1[1] + RDiv((p2[1] - p1[1]) * r, d),
       p1[2] + RDiv((p2[2] - p1[2]) * r, d),
       p1[3] + RDiv((p2[3] - p1[3]) * r, d) >>

GetPoint(points, t) ==
    LerpVectors(points[CurveIndexA(points, t) + 1], points[CurveIndexB(points, t) + 1],
                CurveRemainder(points, t), t[2])

(* curve.getTangent(t): getPoint(min(t + delta, 1)) - getPoint(max(t - delta, 0)),
   normalized, delta = 0.001.  The two points are 0.002 apart in t, so their
   difference is taken exactly, over the common denominator D of the two
   parameters (as D * (p2 - p1)); normalize keeps only its direction.      *)
TangentComponent(D, pa1, pb1, pa2, pb2, r1, r2, k) ==
    D * (pa2[k] - pa1[k]) + (pb2[k] - pa2[k]) * r2 - (pb1[k] - pa1[k]) * r1

TangentFrom(D, pa1, pb1, pa2, pb2, r1, r2) ==
    Normalize(<< TangentComponent(D, pa1, pb1, pa2, pb2, r1, r2, 1),
                 TangentComponent(D, pa1, pb1, pa2, pb2, r1, r2, 2),
                 TangentComponent(D, pa1, pb1, pa2, pb2, r1, r2, 3) >>)

(* pt1 = getPoint(t1), pt2 = getPoint(t2), each between its points a and b *)
TangentBetween(points, D, t1, t2) ==
    TangentFrom(D, points[CurveIndexA(points, t1) + 1], points[CurveIndexB(points, t1) + 1],
                   points[CurveIndexA(points, t2) + 1], points[CurveIndexB(points, t2) + 1],
                   CurveRemainder(points, t1), CurveRemainder(points, t2))

GetTangent(points, t) ==
    TangentBetween(points, 1000 * t[2],
                   <<Max(1000 * t[1] - t[2], 0), 1000 * t[2]>>,
                   <<Min(1000 * t[1] + t[2], 1000 * t[2]), 1000 * t[2]>>)

(* ---------------------------------------------------------------------- *)
(* calculatePathLength                                                     *)

(* the sum, over i in lo+1..hi, of points[i].distanceTo(points[i - 1]),
   added up by halves *)
RECURSIVE PathLengthBetween(_, _, _)
PathLengthBetween(points, lo, hi) ==
    IF hi <= lo THEN 0
    ELSE IF hi = lo + 1 THEN DistanceTo(points[hi], points[lo])
    ELSE LET mid == (lo + hi) \div 2
         IN  PathLengthBetween(points, lo, mid) + PathLengthBetween(points, mid, hi)

CalculatePathLength(points) == PathLengthBetween(points, 1, Len(points))

(* variant: Math.floor in place of Math.ceil *)
SegmentCountFloor(points, width) == Max(1, CalculatePathLength(points) \div width)

(* Math.max(1, Math.ceil(totalLength / segmentLength)), segmentLength = width *)
SegmentCount(points, width) == Max(1, CeilDiv(CalculatePathLength(points), width))

pointsPerSegment == 50

waveAmplitude == FP \div 5
waveFrequency == 2
waveSpeed == 2

(* ---------------------------------------------------------------------- *)
(* buildSegmentedRibbon: reference normal and normal cache                 *)

(* variant: no second reference axis when the tangent is parallel to up *)
ReferenceNormalNoFallback(points) ==
    Normalize(Cross(<<0, FP, 0>>, Normalize(GetTangent(points, <<0, 1>>))))

(* variant: the threshold is applied to up x tangent before it is normalized *)
ReferenceBelowThreshold(initialTangent, referenceNormal) ==
    IF VLength(Cross(<<0, FP, 0>>, initialTangent)) < FP \div 10
    THEN Normalize(Cross(<<FP, 0, 0>>, initialTangent))
    ELSE referenceNormal

(* "if (referenceNormal.length() < 0.1)": right x tangent instead of up x tangent *)
ReferenceOrFallback(initialTangent, referenceNormal) ==
    IF VLength(referenceNormal) < FP \div 10
    THEN Normalize(Cross(<<FP, 0, 0>>, initialTangent))
    ELSE referenceNormal

ReferenceNormalFor(initialTangent) ==
    ReferenceOrFallback(initialTangent, Normalize(Cross(<<0, FP, 0>>, initialTangent)))

ReferenceNormal(points) == ReferenceNormalFor(Normalize(GetTangent(points, <<0, 1>>)))

(* variant: the blend starts at the candidate and moves to prevNormal *)
BlendFromCandidate(prevNormal, normal) ==
    Normalize(Lerp(IF Dot(normal, prevNormal) < 0 THEN VNeg(normal) ELSE normal,
                   prevNormal,
                   FP \div 10))

(* "if (normal.dot(prevNormal) < 0) normal.negate()", then
   prevNormal.clone().lerp(normal, 0.1).normalize() *)
BlendNormal(prevNormal, normal) ==
    Normalize(Lerp(prevNormal,
                   IF Dot(normal, prevNormal) < 0 THEN VNeg(normal) ELSE normal,
                   FP \div 10))

(* variant: the binormal is taken as the candidate normal *)
NextNormalFromBinormal(tangent, prevNormal) ==
    BlendNormal(prevNormal, Normalize(Cross(tangent, prevNormal)))

(* one pass of the loop body for i > 0: binormal = tangent x prevNormal,
   normal = binormal x tangent, both normalized *)
NextNormal(tangent, prevNormal) ==
    BlendNormal(prevNormal,
                Normalize(Cross(Normalize(Cross(tangent, prevNormal)), tangent)))

(* the loop "for (let i = 0; i < totalPoints; i++)" over lo <= i < hi, run by
   halves: the second half continues from the cache the first half leaves;
   prevNormal is the last entry pushed *)
RECURSIVE NormalLoop(_, _, _, _, _, _)
NormalLoop(points, referenceNormal, totalPoints, lo, hi, cache) ==
    IF hi <= lo \/ Len(cache) # lo THEN cache
    ELSE IF hi = lo + 1
    THEN LET t == Frac(lo, Max(totalPoints - 1, 1))
             tangent == Normalize(GetTangent(points, t))
             normal == IF lo = 0 THEN referenceNormal
                       ELSE NextNormal(tangent, cache[lo])
         IN  Append(cache, normal)
    ELSE LET mid == (lo + hi) \div 2
         IN  NormalLoop(points, referenceNormal, totalPoints, mid, hi,
                 NormalLoop(points, referenceNormal, totalPoints, lo, mid, cache))

(* variant: one normal more than segmentCount * pointsPerSegment + 1 *)
BuildNormalCacheOneMore(points, segmentCount) ==
    NormalLoop(points, ReferenceNormal(points), segmentCount * pointsPerSegment + 2,
               0, segmentCount * pointsPerSegment + 2, <<>>)

BuildNormalCache(points, segmentCount) ==
    LET totalPoints == segmentCount * pointsPerSegment + 1
    IN  NormalLoop(points, ReferenceNormal(points), totalPoints, 0, totalPoints, <<>>)

(* ---------------------------------------------------------------------- *)
(* createRibbonSegmentWithCache                                            *)

(* variant: the cutoff threshold is 1.0 whatever the flag *)
MaxPointsKeepsAll(truncate) == pointsPerSegment

(* variant: the cutoff threshold is 0.99 whatever the flag *)
MaxPointsAlwaysCut(truncate) == (pointsPerSegment * 99) \div 100

(* Math.floor(pointsPerSegment * cutoffThreshold), cutoffThreshold 0.99 or 1.0 *)
MaxPoints(truncate) ==
    IF truncate THEN (pointsPerSegment * 99) \div 100 ELSE pointsPerSegment

GlobalT(startT, endT, localT) == FracAdd(startT, FracMul(FracSub(endT, startT), localT))

WavePhase(globalT, time) ==
    RDiv(Sin(RDiv(globalT[1] * 2 * PI * waveFrequency, globalT[2]) + time * waveSpeed)
           * waveAmplitude, FP)

(* variant: a quad after every sample, the last one included *)
QuadIndicesEveryPoint(i, maxPoints) ==
    LET base == i * 2
    IN  <<base, base + 1, base + 2, base + 1, base + 3, base + 2>>

(* "if (i < maxPoints)": the two triangles of the quad after sample i *)
QuadIndices(i, maxPoints) ==
    IF i < maxPoints
    THEN LET base == i * 2
         IN  <<base, base + 1, base + 2, base + 1, base + 3, base + 2>>
    ELSE <<>>

(* variant: the left vertex is the curve point, the right one a whole width away *)
PushedOneSided(point, normal, width, u, quad) ==
    [ positions |-> point \o AddScaledVector(point, normal, width),
      uvs |-> <<u, 0, u, FP>>,
      indices |-> quad ]

(* positions.push(left, right); uvs.push(u, 0, u, 1); the quad's indices *)
Pushed(point, normal, width, u, quad) ==
    [ positions |-> AddScaledVector(point, normal, -RDiv(width, 2))
                      \o AddScaledVector(point, normal, RDiv(width, 2)),
      uvs |-> <<u, 0, u, FP>>,
      indices |-> quad ]

(* the loop body at curve parameter globalT; cached is normalCache[cacheIdx] *)
SampleAt(points, globalT, width, time, cached, u, quad) ==
    Pushed(GetPoint(points, globalT),
           ApplyAxisAngle(cached, Normalize(GetTangent(points, globalT)),
                          WavePhase(globalT, time)),
           width, u, quad)

JoinPushed(first, rest) ==
    [ positions |-> first.positions \o rest.positions,
      uvs |-> first.uvs \o rest.uvs,
      indices |-> first.indices \o rest.indices ]

(* variant: U runs from 0 to 1 over the samples that are walked *)
LocalUOfMaxPoints(i, maxPoints) == RDiv(i * FP, maxPoints)

(* the U of sample i: localT = i / pointsPerSegment, not i / maxPoints *)
LocalU(i, maxPoints) == RDiv(i * FP, pointsPerSegment)

(* the loop "for (let i = 0; i <= maxPoints; i++)" over lo <= i <= hi, run by
   halves: what the iterations push onto positions, uvs and indices *)
RECURSIVE SegmentLoop(_, _, _, _, _, _, _, _, _, _)
SegmentLoop(points, startT, endT, width, time, cache, startPointIdx, maxPoints, lo, hi) ==
    IF hi < lo THEN [positions |-> <<>>, uvs |-> <<>>, indices |-> <<>>]
    ELSE IF hi = lo
    THEN SampleAt(points, GlobalT(startT, endT, Frac(lo, pointsPerSegment)),
                  width, time, cache[startPointIdx + lo + 1],
                  LocalU(lo, maxPoints), QuadIndices(lo, maxPoints))
    ELSE JoinPushed(
             SegmentLoop(points, startT, endT, width, time, cache,
                         startPointIdx, maxPoints, lo, (lo + hi) \div 2),
             SegmentLoop(points, startT, endT, width, time, cache,
                         startPointIdx, maxPoints, (lo + hi) \div 2 + 1, hi))

SegmentMesh(segmentIndex, g) ==
    [ segmentIndex |-> segmentIndex,
      positions |-> g.positions, uvs |-> g.uvs, indices |-> g.indices ]

CreateRibbonSegmentWithCache(truncate, points, startT, endT, width, time, segmentIndex, cache, startPointIdx) ==
    SegmentMesh(segmentIndex,
                SegmentLoop(points, startT, endT, width, time, cache, startPointIdx,
                            MaxPoints(truncate), 0, MaxPoints(truncate)))

(* the loop "for (let segIdx = 0; segIdx < segmentCount; segIdx++)" *)
RECURSIVE SegmentsLoop(_, _, _, _, _, _, _, _)
SegmentsLoop(truncate, points, width, time, segmentCount, cache, segIdx, out) ==
    IF segIdx >= segmentCount \/ Len(out) # segIdx THEN out
    ELSE SegmentsLoop(truncate, points, width, time, segmentCount, cache,
             segIdx + 1,
             Append(out, CreateRibbonSegmentWithCache(truncate, points,
                 Frac(segIdx, segmentCount), Frac(segIdx + 1, segmentCount), width, time,
                 segIdx, cache, segIdx * pointsPerSegment)))

SegmentsWithCache(truncate, points, width, time, segmentCount, cache) ==
    [ normalCache |-> cache,
      segments |-> SegmentsLoop(truncate, points, width, time, segmentCount,
                                cache, 0, <<>>) ]

SegmentsFor(truncate, points, width, time, segmentCount) ==
    SegmentsWithCache(truncate, points, width, time, segmentCount,
                      BuildNormalCache(points, segmentCount))

(* what buildSegmentedRibbon computes: the normal cache and the segments *)
BuildSegments(truncate, points, width, time) ==
    SegmentsFor(truncate, points, width, time, SegmentCount(points, width))

(* ---------------------------------------------------------------------- *)
(* normalizeDrawingPoints: 2D drawing points <<x, y>> in whole pixels      *)

RECURSIVE MinOf(_, _, _)
MinOf(pts, k, i) ==
    IF i > Len(pts) THEN pts[1][k] ELSE Min(pts[i][k], MinOf(pts, k, i + 1))
RECURSIVE MaxOf(_, _, _)
MaxOf(pts, k, i) ==
    IF i > Len(pts) THEN pts[1][k] ELSE Max(pts[i][k], MaxOf(pts, k, i + 1))

(* variant: y is scaled like x, without the multiplication by -1 *)
NormalizeDrawingPointsUnflipped(pts) ==
    IF Len(pts) < 2 THEN [i \in 1..Len(pts) |-> <<pts[i][1] * FP, pts[i][2] * FP>>]
    ELSE LET minX == MinOf(pts, 1, 1)
             minY == MinOf(pts, 2, 1)
             w == MaxOf(pts, 1, 1) - minX
             h == MaxOf(pts, 2, 1) - minY
             maxDimension == Max(w, h)
             Scaled(twice) == IF maxDimension > 0
                              THEN RDiv(twice * 4 * FP, maxDimension)
                              ELSE RDiv(twice * FP, 2)
         IN  [i \in 1..Len(pts) |->
                << Scaled(2 * (pts[i][1] - minX) - w),
                   Scaled(2 * (pts[i][2] - minY) - h) >>]

(* (p.x - centerX) * scale with centerX = minX + width / 2 and
   scale = maxDimension > 0 ? 8 / maxDimension : 1, in fixed point; y is
   multiplied by -1 *)
NormalizeDrawingPoints(pts) ==
    IF Len(pts) < 2 THEN [i \in 1..Len(pts) |-> <<pts[i][1] * FP, pts[i][2] * FP>>]
    ELSE LET minX == MinOf(pts, 1, 1)
             minY == MinOf(pts, 2, 1)
             w == MaxOf(pts, 1, 1) - minX
             h == MaxOf(pts, 2, 1) - minY
             maxDimension == Max(w, h)
             Scaled(twice) == IF maxDimension > 0
                              THEN RDiv(twice * 4 * FP, maxDimension)
                              ELSE RDiv(twice * FP, 2)
         IN  [i \in 1..Len(pts) |->
                << Scaled(2 * (pts[i][1] - minX) - w),
                   -Scaled(2 * (pts[i][2] - minY) - h) >>]

(* normalizedPoints.map(p => new THREE.Vector3(p.x, p.y, 0)) *)
Points3D(pts) == [i \in 1..Len(pts) |-> <<pts[i][1], pts[i][2], 0>>]

(* ---------------------------------------------------------------------- *)
(* smoothPoints: CatmullRomCurve3(points, false, 'centripetal').getPoint   *)

(* Math.pow(distanceToSquared, 0.25), with the safety check for repeated
   points (a value below 1e-4 reads as 0 here) *)
CentripetalDt(p, q) == Isqrt(DistanceTo(p, q) * FP)

(* CubicPoly.initNonuniformCatmullRom and calc, for one coordinate;
   weight is the fraction <<n, d>> *)
CubicPolyCalc(x0, x1, x2, x3, dt0, dt1, dt2, weight) ==
    LET t1 == RDiv((RDiv((x1 - x0) * FP, dt0) - RDiv((x2 - x0) * FP, dt0 + dt1)
                    + RDiv((x2 - x1) * FP, dt1)) * dt1, FP)
        t2 == RDiv((RDiv((x2 - x1) * FP, dt1) - RDiv((x3 - x1) * FP, dt1 + dt2)
                    + RDiv((x3 - x2) * FP, dt2)) * dt1, FP)
        c0 == x1
        c1 == t1
        c2 == -3 * x1 + 3 * x2 - 2 * t1 - t2
        c3 == 2 * x1 - 2 * x2 + t1 + t2
        Times(c) == RDiv(c * weight[1], weight[2])
    IN  c0 + Times(c1 + Times(c2 + Times(c3)))

CatmullRomCalc(p0, p1, p2, p3, dt0, dt1, dt2, weight) ==
    << CubicPolyCalc(p0[1], p1[1], p2[1], p3[1], dt0, dt1, dt2, weight),
       CubicPolyCalc(p0[2], p1[2], p2[2], p3[2], dt0, dt1, dt2, weight),
       CubicPolyCalc(p0[3], p1[3], p2[3], p3[3], dt0, dt1, dt2, weight) >>

(* "if (dt0 < 1e-4) dt0 = dt1; if (dt2 < 1e-4) dt2 = dt1" *)
CatmullRomSafe(p0, p1, p2, p3, d0, dt1, d2, weight) ==
    CatmullRomCalc(p0, p1, p2, p3, IF d0 = 0 THEN dt1 ELSE d0, dt1,
                   IF d2 = 0 THEN dt1 ELSE d2, weight)

(* "if (dt1 < 1e-4) dt1 = 1.0" *)
CatmullRomSpans(p0, p1, p2, p3, d1, weight) ==
    CatmullRomSafe(p0, p1, p2, p3, CentripetalDt(p0, p1),
                   IF d1 = 0 THEN FP ELSE d1, CentripetalDt(p2, p3), weight)

CatmullRomSegment(p0, p1, p2, p3, weight) ==
    CatmullRomSpans(p0, p1, p2, p3, CentripetalDt(p1, p2), weight)

(* the four control points around intPoint; the curve is not closed, so the
   first and the last are extrapolated at the ends *)
CatmullRomAt(pts, l, intPoint, weight) ==
    CatmullRomSegment(
        IF intPoint > 0 THEN pts[intPoint] ELSE VAdd(VSub(pts[1], pts[2]), pts[1]),
        pts[intPoint + 1],
        pts[intPoint + 2],
        IF intPoint + 2 < l THEN pts[intPoint + 3]
        ELSE VAdd(VSub(pts[l], pts[l - 1]), pts[l]),
        weight)

CatmullRomGetPoint(pts, t) ==
    LET l == Len(pts)
        num == (l - 1) * t[1]
        atEnd == num % t[2] = 0 /\ num \div t[2] = l - 1
    IN  CatmullRomAt(pts, l,
                     IF atEnd THEN l - 2 ELSE num \div t[2],
                     IF atEnd THEN <<1, 1>> ELSE <<num % t[2], t[2]>>)

(* the samples curve.getPoint(i / (numSamples - 1)) for lo <= i <= hi, by halves *)
RECURSIVE SmoothLoop(_, _, _, _)
SmoothLoop(pts, samples, lo, hi) ==
    IF hi < lo THEN <<>>
    ELSE IF hi = lo THEN <<CatmullRomGetPoint(pts, <<lo, samples - 1>>)>>
    ELSE LET mid == (lo + hi) \div 2
         IN  SmoothLoop(pts, samples, lo, mid) \o SmoothLoop(pts, samples, mid + 1, hi)

SmoothPoints(pts, samples) ==
    IF Len(pts) < 2 THEN pts ELSE SmoothLoop(pts, samples, 0, samples - 1)

(* ---------------------------------------------------------------------- *)
(* Inputs                                                                  *)

(* longest straight path offered to buildFromPoints, in points *)
MaxStraight == 3
(* largest animation time offered, in seconds *)
MaxTime == 1

Pt(a, b, c) == <<a * FP, b * FP, c * FP>>

(* (0,0,0), (1,0,0), ..., (n-1,0,0): a straight path of length n - 1 *)
Straight(n) == [i \in 1..n |-> Pt(i - 1, 0, 0)]

DegeneratePaths ==
    { <<Pt(0, 0, 0), Pt(0, 0, 0)>>,                  (* all points coincident       *)
      <<Pt(0, 0, 0), Pt(0, 0, 0), Pt(1, 0, 0)>>,     (* coincident points first     *)
      <<Pt(0, 0, 0), Pt(1, 0, 0), Pt(1, 0, 0)>> }    (* coincident points last      *)

ShapedPaths ==
    { <<Pt(0, 0, 0), Pt(0, 1, 0)>>,                  (* tangent parallel to up      *)
      <<Pt(0, 0, 0), <<FP \div 20, FP, 0>> >>,       (* nearly parallel: (0.05,1,0) *)
      <<Pt(0, 0, 0), Pt(1, 1, 0)>>,                  (* diagonal, length sqrt(2)    *)
      <<Pt(0, 0, 0), Pt(1, 0, 0), Pt(2, 0, 1)>> }    (* a bend out of the xy plane  *)

(* point sequences of at least 2 points *)
BuildablePaths == {Straight(n) : n \in 2..MaxStraight} \cup DegeneratePaths \cup ShapedPaths

(* point sequences too short to build from: the empty one and a single point *)
ShortPaths == {<<>>, <<Pt(0, 0, 0)>>}

(* ribbon widths: the default 1 and the 1.2 of createRibbonFromDrawing *)
DrawingWidth == (FP * 12) \div 10
Widths == {FP, DrawingWidth}

Times == {s * FP : s \in 0..MaxTime}

(* the (points, width, time) handed to buildFromPoints: every buildable path
   with every width and time, and the short ones with the default width and
   time, which the call does not read for them *)
BuildArgs == (BuildablePaths \X Widths \X Times) \cup (ShortPaths \X {FP} \X {0})

(* drawings, in screen pixels: none, one point, two coincident points, and
   the straight horizontal stroke of the scenario example *)
CoincidentDrawing == << <<5, 5>>, <<5, 5>> >>
LineDrawing == << <<0, 0>>, <<10, 0>>, <<20, 0>>, <<30, 0>> >>
BuildableDrawings == {CoincidentDrawing, LineDrawing}
Drawings == {<<>>, << <<5, 5>> >>} \cup BuildableDrawings

(* ---------------------------------------------------------------------- *)
(* The geometry of every offered build and the smoothing of every offered  *)
(* drawing, evaluated once (@@ makes the function an explicit one).        *)

numSamples == 150

SmoothTable ==
    [d \in BuildableDrawings |->
        SmoothPoints(Points3D(NormalizeDrawingPoints(d)), numSamples)] @@ <<>>

Smoothed(drawPoints) ==
    IF drawPoints \in BuildableDrawings THEN SmoothTable[drawPoints]
    ELSE SmoothPoints(Points3D(NormalizeDrawingPoints(drawPoints)), numSamples)

BuildKeys ==
    (BOOLEAN \X BuildablePaths \X Widths \X Times)
    \cup (BOOLEAN \X {SmoothTable[d] : d \in BuildableDrawings} \X {DrawingWidth} \X Times)

BuildTable == [k \in BuildKeys |-> BuildSegments(k[1], k[2], k[3], k[4])] @@ <<>>

Built(truncate, points, width, time) ==
    IF <<truncate, points, width, time>> \in BuildKeys
    THEN BuildTable[<<truncate, points, width, time>>]
    ELSE BuildSegments(truncate, points, width, time)

(* ---------------------------------------------------------------------- *)
(* TileManager (tileManager.js), as functions of the TileManager           *)

(* largest tileCount option offered to new TileManager *)
MaxTileCount == 2
(* largest segment index asked of getTile and getMaterial *)
MaxIndex == 4

(* most layers of a KTX2 array texture *)
MaxDepth == 3
(* latest reading of performance.now(), in ms *)
MaxClock == 136
(* ms between two frames of the render loop: one display frame or two *)
FrameTimes == {17, 34}

Sources == {"jpg", "ktx2-waves", "ktx2-planes"}

(* what a tile slot can hold: a texture or material made for tile `tile`,
   JavaScript's undefined, or a promise that has not settled yet *)
Surface(kind, index) == [kind |-> kind, tile |-> index, depth |-> 0]
(* the ShaderMaterial of #createArrayMaterial over an array texture of
   `depth` layers; all of them read the one sharedLayerUniform *)
ArrayMaterial(index, depth) == [kind |-> "ShaderMaterial", tile |-> index, depth |-> depth]
Undefined == Surface("undefined", -1)
Pending == Surface("pending", -1)

StartsWithKTX2(source) == source \in {"ktx2-waves", "ktx2-planes"}
EndsWithPlanes(source) == source = "ktx2-planes"

(* new TileManager({source, tileCount}); promises are those loadAllTiles is
   waiting for, none while no load is in progress *)
TileManagerConstructor(source, count) ==
    [ tileCount |-> count,
      tiles |-> <<>>,
      materials |-> <<>>,
      isKTX2 |-> StartsWithKTX2(source),
      variant |-> IF StartsWithKTX2(source)
                  THEN (IF EndsWithPlanes(source) THEN "planes" ELSE "waves")
                  ELSE "null",
      sharedLayerUniform |-> 0,
      currentLayer |-> 0,
      layerCount |-> 0,
      direction |-> 1,
      fps |-> 30,
      lastFrameTime |-> 0,
      ktx2Loader |-> FALSE,
      loading |-> FALSE,
      promises |-> <<>> ]

(* loadAllTiles up to its await of Promise.all: ok is the outcome of
   #initKTX2 (WebGL2 there and the loader constructed) *)
LoadAllTilesStart(tm, ok) ==
    [tm EXCEPT !.isKTX2 = tm.isKTX2 /\ ok,
               !.ktx2Loader = IF tm.isKTX2 THEN ok ELSE @,
               !.loading = TRUE,
               !.promises = [i \in 1..tm.tileCount |-> Pending]]

(* the surface promise index settles with: the loaded one, or the solid
   colour fallback of the error callback *)
LoadKTX2Tile(index, ok, depth) ==
    IF ok THEN ArrayMaterial(index, depth) ELSE Surface("MeshBasicMaterial", index)

(* arrayTexture.image?.depth || 1 *)
DepthOr1(depth) == IF depth = 0 THEN 1 ELSE depth

(* the load callback of #loadKTX2Tile: the first texture to arrive sets
   layerCount and resets the cycle; a later one of another depth only logs
   a warning *)
KTX2Loaded(tm, depth) ==
    IF tm.layerCount = 0
    THEN [tm EXCEPT !.layerCount = DepthOr1(depth),
                    !.currentLayer = 0,
                    !.direction = 1,
                    !.sharedLayerUniform = 0]
    ELSE tm

LoadJPGTile(index, ok) ==
    IF ok THEN Surface("Texture", index) ELSE Surface("CanvasTexture", index)

TileSettles(tm, index, ok, depth) ==
    IF tm.isKTX2
    THEN [(IF ok THEN KTX2Loaded(tm, depth) ELSE tm)
            EXCEPT !.promises[index + 1] = LoadKTX2Tile(index, ok, depth)]
    ELSE [tm EXCEPT !.promises[index + 1] = LoadJPGTile(index, ok)]

(* loadAllTiles after Promise.all has resolved *)
LoadAllTilesDone(tm) ==
    IF tm.isKTX2
    THEN [tm EXCEPT !.materials = tm.promises, !.loading = FALSE, !.promises = <<>>]
    ELSE [tm EXCEPT !.tiles = tm.promises, !.loading = FALSE, !.promises = <<>>]

RECURSIVE SettleAll(_, _, _, _)
SettleAll(tm, index, ok, depth) ==
    IF index >= tm.tileCount THEN tm
    ELSE SettleAll(TileSettles(tm, index, ok, depth), index + 1, ok, depth)

(* await loadAllTiles(), every tile loading, from files of MaxDepth layers *)
LoadAllTiles(tm) ==
    LoadAllTilesDone(SettleAll(LoadAllTilesStart(tm, TRUE), 0, TRUE, MaxDepth))

(* variant: the ping-pong turns round one step late, after the end layer
   has been shown a second time *)
NextLayerHoldsEnds(tm) ==
    IF tm.variant = "waves"
    THEN [tm EXCEPT !.currentLayer = (@ + 1) % tm.layerCount]
    ELSE LET moved == tm.currentLayer + tm.direction
         IN  IF moved > tm.layerCount - 1
             THEN [tm EXCEPT !.currentLayer = tm.layerCount - 1, !.direction = -1]
             ELSE IF moved < 0
                  THEN [tm EXCEPT !.currentLayer = 0, !.direction = 1]
                  ELSE [tm EXCEPT !.currentLayer = moved]

(* the layer step of tick: a loop for waves, a ping-pong for planes *)
NextLayer(tm) ==
    IF tm.variant = "waves"
    THEN [tm EXCEPT !.currentLayer = (@ + 1) % tm.layerCount]
    ELSE LET moved == tm.currentLayer + tm.direction
         IN  IF moved >= tm.layerCount - 1
             THEN [tm EXCEPT !.currentLayer = tm.layerCount - 1, !.direction = -1]
             ELSE IF moved <= 0
                  THEN [tm EXCEPT !.currentLayer = 0, !.direction = 1]
                  ELSE [tm EXCEPT !.currentLayer = moved]

(* Math.max(0, Math.min(currentLayer, Math.max(0, layerCount - 1))) | 0 *)
ClampedLayer(tm) == Max(0, Min(tm.currentLayer, Max(0, tm.layerCount - 1)))

(* variant: the shared uniform is written one advance late *)
TickStaleUniform(tm, nowMs) ==
    IF ~tm.isKTX2 \/ tm.layerCount <= 1 THEN tm
    ELSE LET timed == IF tm.lastFrameTime = 0 THEN [tm EXCEPT !.lastFrameTime = nowMs]
                      ELSE tm
         IN  IF (nowMs - timed.lastFrameTime) * timed.fps >= 1000
             THEN [NextLayer([timed EXCEPT !.lastFrameTime = nowMs])
                      EXCEPT !.sharedLayerUniform = ClampedLayer(timed)]
             ELSE timed

(* tick(nowMs); elapsed >= 1000 / fps is compared as elapsed * fps >= 1000 *)
Tick(tm, nowMs) ==
    IF ~tm.isKTX2 \/ tm.layerCount <= 1 THEN tm
    ELSE LET timed == IF tm.lastFrameTime = 0 THEN [tm EXCEPT !.lastFrameTime = nowMs]
                      ELSE tm
         IN  IF (nowMs - timed.lastFrameTime) * timed.fps >= 1000
             THEN LET stepped == NextLayer([timed EXCEPT !.lastFrameTime = nowMs])
                  IN  [stepped EXCEPT !.sharedLayerUniform = ClampedLayer(stepped)]
             ELSE timed

(* array[k] of JavaScript: undefined outside the array *)
ElementAt(array, k) == IF k + 1 \in DOMAIN array THEN array[k + 1] ELSE Undefined

(* index % 0 is NaN, and array[NaN] is undefined *)
GetTile(tm, index) ==
    IF tm.tileCount = 0 THEN Undefined ELSE ElementAt(tm.tiles, index % tm.tileCount)

GetMaterial(tm, index) ==
    IF ~tm.isKTX2 \/ tm.tileCount = 0 THEN Undefined
    ELSE ElementAt(tm.materials, index % tm.tileCount)

(* the tile managers a Ribbon is given: loaded as main.js does before it
   creates the Ribbon, from JPG files and from KTX2 files *)
ManagersInUse ==
    { LoadAllTiles(TileManagerConstructor(source, MaxTileCount))
        : source \in {"jpg", "ktx2-waves"} }

(* ---------------------------------------------------------------------- *)
(* DrawingManager of drawing.js                                            *)

(* largest pixel x coordinate of a pointer event *)
MaxPixel == 3
(* most points captured in one stroke *)
MaxStroke == 3

(* clientX and clientY of a pointer event, in half pixels; the events lie
   on three rows of whole pixels *)
ClientCoords == 0..(2 * MaxPixel)
ClientRows == {0, 2, 4}

(* Math.round of a coordinate given in half pixels: halves round up *)
MathRound(half) == (half + 1) \div 2

(* a method of the DrawingManager as a function object, and the new
   function object that method.bind(this) returns *)
Method(name) == [method |-> name, bound |-> FALSE]
Bind(fn) == [fn EXCEPT !.bound = TRUE]

Listener(type, fn) == [type |-> type, listener |-> fn]

(* canvas.addEventListener and canvas.removeEventListener: a listener is
   removed when the same function object was added for the type *)
AddEventListener(listeners, type, fn) == listeners \cup {Listener(type, fn)}
RemoveEventListener(listeners, type, fn) == listeners \ {Listener(type, fn)}

InitEventListeners(listeners) ==
    AddEventListener(
        AddEventListener(
            AddEventListener(
                AddEventListener(listeners, "pointerdown", Bind(Method("handlePointerDown"))),
                "pointermove", Bind(Method("handlePointerMove"))),
            "pointerup", Bind(Method("handlePointerUp"))),
        "pointercancel", Bind(Method("handlePointerUp")))

(* new DrawingManager(canvas, onDrawingComplete); listeners are those of
   the canvas *)
DrawingManagerConstructor ==
    [ points |-> <<>>,
      isActive |-> FALSE,
      minPointDistance |-> 3,
      listeners |-> InitEventListeners({}) ]

(* variant: compares the squared distance with minPointDistance itself *)
ShouldAddPointUnsquared(dm, x, y) ==
    IF Len(dm.points) = 0 THEN TRUE
    ELSE LET lastPoint == dm.points[Len(dm.points)]
         IN  (x - lastPoint[1]) * (x - lastPoint[1]) + (y - lastPoint[2]) * (y - lastPoint[2])
                 >= dm.minPointDistance

ShouldAddPoint(dm, x, y) ==
    IF Len(dm.points) = 0 THEN TRUE
    ELSE LET lastPoint == dm.points[Len(dm.points)]
         IN  (x - lastPoint[1]) * (x - lastPoint[1]) + (y - lastPoint[2]) * (y - lastPoint[2])
                 >= dm.minPointDistance * dm.minPointDistance

SetActive(dm, active) == [dm EXCEPT !.isActive = active]

HandlePointerDown(dm, clientX, clientY) ==
    IF ~dm.isActive THEN dm
    ELSE [dm EXCEPT !.points = << <<MathRound(clientX), MathRound(clientY)>> >>]

HandlePointerMove(dm, clientX, clientY, buttons) ==
    IF ~dm.isActive \/ buttons # 1 THEN dm
    ELSE IF ShouldAddPoint(dm, MathRound(clientX), MathRound(clientY))
         THEN [dm EXCEPT !.points = Append(@, <<MathRound(clientX), MathRound(clientY)>>)]
         ELSE dm

(* the points handlePointerUp hands to onDrawingComplete, none when it
   does not call it *)
HandlePointerUp(dm) ==
    IF ~dm.isActive THEN <<>>
    ELSE IF Len(dm.points) >= 2 THEN dm.points
         ELSE <<>>

(* dispose(): removeEventListener with the methods themselves, which are
   not the function objects that bind returned to addEventListener *)
DrawingDispose(dm) ==
    [dm EXCEPT !.listeners =
        RemoveEventListener(
            RemoveEventListener(
                RemoveEventListener(
                    RemoveEventListener(@, "pointerdown", Method("handlePointerDown")),
                    "pointermove", Method("handlePointerMove")),
                "pointerup", Method("handlePointerUp")),
            "pointercancel", Method("handlePointerUp"))]

(* the canvas dispatches an event of the type: the methods its listeners
   were bound from *)
Handlers(dm, type) == {l.listener.method : l \in {k \in dm.listeners : k.type = type}}

(* ---------------------------------------------------------------------- *)
(* State                                                                   *)

VARIABLES
    tileManager,       \* this.tileManager: "null" or "tm"
    meshSegments,      \* this.meshSegments: the meshes, each with its geometry
    lastPoints,        \* this.lastPoints
    lastWidth,         \* this.lastWidth
    truncateSegments,  \* this.truncateSegments
    scene,             \* scene.children: the ids of the meshes in the scene
    geometries,        \* ids of the meshes whose geometry is not disposed
    materials,         \* ids of the meshes whose material is not disposed
    normalCache,       \* the normalCache array of the latest buildSegmentedRibbon
    call,              \* the latest call and its outcome
    lastBuilt,         \* the latest build that ran to completion
    manager,           \* the TileManager: its fields and its pending promises
    loaded,            \* a loadAllTiles() of the TileManager has completed
    clock,             \* the last reading of performance.now(), in ms
    drawingManager,    \* the DrawingManager and the listeners of its canvas
    history,           \* capturedDrawings, drawingCounter and historyIndex of main.js
    disposedTextures   \* the provider's textures and materials that were disposed

vars == <<tileManager, meshSegments, lastPoints, lastWidth, truncateSegments, scene,
          geometries, materials, normalCache, call, lastBuilt, manager, loaded,
          clock, drawingManager, history, disposedTextures>>

(* the Ribbon, its scene and the outcome of the call in progress
   (threw: an exception left the call; returned: the call's return value;
   built: buildSegmentedRibbon ran to completion) *)
Self ==
    [ tileManager |-> tileManager, meshSegments |-> meshSegments,
      lastPoints |-> lastPoints, lastWidth |-> lastWidth,
      truncateSegments |-> truncateSegments, scene |-> scene,
      geometries |-> geometries, materials |-> materials,
      normalCache |-> normalCache, disposedTextures |-> disposedTextures,
      threw |-> FALSE, returned |-> "undefined", built |-> FALSE ]

(* new Ribbon(scene), with an empty scene *)
Constructor ==
    [ tileManager |-> "null", meshSegments |-> <<>>,
      lastPoints |-> <<>>, lastWidth |-> FP,
      truncateSegments |-> TRUE, scene |-> <<>>,
      geometries |-> {}, materials |-> {},
      normalCache |-> <<>>, disposedTextures |-> {},
      threw |-> FALSE, returned |-> "undefined", built |-> FALSE ]

SeqRange(s) == {s[i] : i \in DOMAIN s}
MeshIds(segs) == {segs[i].id : i \in DOMAIN segs}

(* a mesh is a new object: it gets the smallest ids that no mesh still held by
   the ribbon or the scene, or not yet disposed, carries *)
Tracked(self) ==
    self.geometries \cup self.materials \cup SeqRange(self.scene) \cup MeshIds(self.meshSegments)

RECURSIVE FreshFrom(_, _, _)
FreshFrom(used, n, c) ==
    IF n = 0 THEN <<>>
    ELSE IF c \in used THEN FreshFrom(used, n, c + 1)
    ELSE <<c>> \o FreshFrom(used, n - 1, c + 1)

FreshIds(self, n) == FreshFrom(Tracked(self), n, 0)

(* ---------------------------------------------------------------------- *)
(* Ribbon methods, as functions of the Ribbon                              *)

(* variant: disposes the old meshes but leaves them in the scene *)
CleanupKeepsScene(self) ==
    LET old == MeshIds(self.meshSegments)
    IN  [ self EXCEPT !.geometries = @ \ old,
                      !.materials = @ \ old,
                      !.meshSegments = <<>> ]

(* variant: the map of every old material is disposed with the material *)
CleanupDisposesMaps(self) ==
    LET old == MeshIds(self.meshSegments)
    IN  [ self EXCEPT !.geometries = @ \ old,
                      !.materials = @ \ old,
                      !.scene = SelectSeq(@, LAMBDA c : c \notin old),
                      !.disposedTextures =
                          @ \cup {self.meshSegments[i].map : i \in DOMAIN self.meshSegments},
                      !.meshSegments = <<>> ]

(* mesh.geometry.dispose(), mesh.material.dispose() (which leaves the
   material's map alone) and scene.remove(mesh) for every mesh *)
CleanupOldMesh(self) ==
    LET old == MeshIds(self.meshSegments)
    IN  [ self EXCEPT !.geometries = @ \ old,
                      !.materials = @ \ old,
                      !.scene = SelectSeq(@, LAMBDA c : c \notin old),
                      !.meshSegments = <<>> ]

(* variant: a segment whose tile is undefined gets no mesh *)
MeshesOfTextured(tm, ids, segments) ==
    SelectSeq([i \in 1..Len(ids) |->
                  [ id |-> ids[i],
                    segmentIndex |-> segments[i].segmentIndex,
                    map |-> GetTile(tm, segments[i].segmentIndex),
                    positions |-> segments[i].positions,
                    uvs |-> segments[i].uvs,
                    indices |-> segments[i].indices ]],
              LAMBDA m : m.map # Undefined)

(* map: the material's texture, this.tileManager.getTile(segmentIndex);
   MeshBasicMaterial leaves out a map that is undefined *)
MeshesOf(tm, ids, segments) ==
    [i \in 1..Len(ids) |->
        [ id |-> ids[i],
          segmentIndex |-> segments[i].segmentIndex,
          map |-> GetTile(tm, segments[i].segmentIndex),
          positions |-> segments[i].positions,
          uvs |-> segments[i].uvs,
          indices |-> segments[i].indices ]]

(* this.meshSegments.push(mesh); this.scene.add(mesh), for every segment *)
AddMeshes(cleaned, cache, ids, segments) ==
    [cleaned EXCEPT !.normalCache = cache,
                    !.meshSegments = MeshesOf(manager, ids, segments),
                    !.scene = @ \o ids,
                    !.geometries = @ \cup SeqRange(ids),
                    !.materials = @ \cup SeqRange(ids),
                    !.returned = "meshSegments",
                    !.built = TRUE]

(* With no tile manager, this.tileManager.getTile throws in the first
   createRibbonSegmentWithCache, after cleanupOldMesh and the normal cache
   loop. *)
BuildInto(cleaned, result) ==
    IF cleaned.tileManager = "null"
    THEN [cleaned EXCEPT !.normalCache = result.normalCache, !.threw = TRUE]
    ELSE AddMeshes(cleaned, result.normalCache,
                   FreshIds(cleaned, Len(result.segments)), result.segments)

BuildSegmentedRibbon(self, points, width, time) ==
    BuildInto(CleanupOldMesh(self), Built(self.truncateSegments, points, width, time))

(* variant: stores the points and the width before the length check *)
BuildFromPointsStoresFirst(self, points, width, time) ==
    LET stored == [self EXCEPT !.lastPoints = points, !.lastWidth = width]
    IN  IF Len(points) < 2 THEN stored
        ELSE BuildSegmentedRibbon(stored, points, width, time)

(* variant: builds with the width stored by the previous build *)
BuildFromPointsStaleWidth(self, points, width, time) ==
    IF Len(points) < 2 THEN self
    ELSE BuildSegmentedRibbon([self EXCEPT !.lastPoints = points, !.lastWidth = width],
                              points, self.lastWidth, time)

BuildFromPoints(self, points, width, time) ==
    IF Len(points) < 2 THEN self
    ELSE BuildSegmentedRibbon([self EXCEPT !.lastPoints = points, !.lastWidth = width],
                              points, width, time)

(* variant: rebuilds with the default width 1 instead of lastWidth *)
UpdateDefaultWidth(self, time) ==
    IF Len(self.lastPoints) >= 2
    THEN [BuildFromPoints(self, self.lastPoints, FP, time)
            EXCEPT !.returned = "undefined"]
    ELSE self

Update(self, time) ==
    IF Len(self.lastPoints) >= 2
    THEN [BuildFromPoints(self, self.lastPoints, self.lastWidth, time)
            EXCEPT !.returned = "undefined"]
    ELSE self

Dispose(self) == [CleanupOldMesh(self) EXCEPT !.lastPoints = <<>>]

CreateRibbonFromDrawing(self, drawPoints) ==
    IF Len(drawPoints) < 2 THEN self
    ELSE BuildFromPoints(self, Smoothed(drawPoints), DrawingWidth, 0)

(* truncateToggleBtn click handler of main.js *)
TruncateToggle(self) ==
    LET toggled == [self EXCEPT !.truncateSegments = ~@]
    IN  IF Len(toggled.lastPoints) >= 2
        THEN [BuildFromPoints(toggled, toggled.lastPoints, toggled.lastWidth, 0)
                EXCEPT !.returned = "undefined"]
        ELSE toggled

(* ---------------------------------------------------------------------- *)
(* Point capture and replay of main.js                                     *)

(* most drawings completed in one session *)
MaxCaptured == 3
(* capturedDrawings keeps the last 20 *)
historyLimit == 20

(* a property of an object: its value, or missing (read as undefined) *)
Field(value) == [defined |-> TRUE, value |-> value]
Missing == [defined |-> FALSE, value |-> <<>>]

NoHistory == [capturedDrawings |-> <<>>, drawingCounter |-> 0, historyIndex |-> -1]

(* main.js and its ribbon: what the handlers below read and write *)
App(h, ribbon) ==
    [ capturedDrawings |-> h.capturedDrawings,
      drawingCounter |-> h.drawingCounter,
      historyIndex |-> h.historyIndex,
      ribbon |-> ribbon,
      threw |-> FALSE ]

(* array.slice(-n) *)
LastN(array, n) ==
    IF Len(array) > n THEN SubSeq(array, Len(array) - n + 1, Len(array)) ELSE array

(* array.splice(k, 1) *)
SpliceOut(array, k) ==
    [i \in 1..(Len(array) - 1) |-> IF i <= k THEN array[i] ELSE array[i + 1]]

(* the capturedEntry of handleDrawingComplete: the strokes go under
   `strokes`, and there is no `points` *)
CapturedEntry(id, strokesData, success) ==
    [ id |-> id,
      strokes |-> Field(<<strokesData>>),
      points |-> Missing,
      success |-> success ]

(* handleDrawingComplete(strokesData) for the one stroke of points that
   DrawingManager.handlePointerUp hands over *)
HandleDrawingComplete(app, strokesData) ==
    LET drawn == CreateRibbonFromDrawing(app.ribbon, strokesData)
    IN  IF drawn.threw THEN [app EXCEPT !.drawingCounter = @ + 1, !.ribbon = drawn,
                                        !.threw = TRUE]
        ELSE LET pushed == Append(app.capturedDrawings,
                                  CapturedEntry(app.drawingCounter + 1, strokesData,
                                                Len(drawn.meshSegments) > 0))
                 kept == LastN(pushed, historyLimit)
             IN  [app EXCEPT !.drawingCounter = @ + 1,
                             !.ribbon = drawn,
                             !.capturedDrawings = kept,
                             !.historyIndex = Len(kept) - 1]

(* replayDrawingAtIndex(index): drawing.points.length is read for the log
   line, which throws a TypeError when the entry has no points *)
ReplayDrawingAtIndex(app, index) ==
    IF Len(app.capturedDrawings) = 0 THEN app
    ELSE LET clamped == Max(0, Min(index, Len(app.capturedDrawings) - 1))
             drawing == app.capturedDrawings[clamped + 1]
             moved == [app EXCEPT !.historyIndex = clamped]
         IN  IF ~drawing.points.defined THEN [moved EXCEPT !.threw = TRUE]
             ELSE IF Len(drawing.points.value) >= 2
                  THEN LET drawn == CreateRibbonFromDrawing(moved.ribbon, drawing.points.value)
                       IN  [moved EXCEPT !.ribbon = drawn, !.threw = drawn.threw]
                  ELSE moved

(* the click handlers of the history buttons *)
ReplayClick(app) ==
    IF Len(app.capturedDrawings) = 0 THEN app
    ELSE IF app.historyIndex < 0
         THEN ReplayDrawingAtIndex(app, Len(app.capturedDrawings) - 1)
         ELSE ReplayDrawingAtIndex(app, app.historyIndex)

ReplayPrevClick(app) ==
    IF Len(app.capturedDrawings) = 0 THEN app
    ELSE IF app.historyIndex < 0
         THEN ReplayDrawingAtIndex(app, Len(app.capturedDrawings) - 1)
         ELSE IF app.historyIndex > 0
              THEN ReplayDrawingAtIndex(app, app.historyIndex - 1)
              ELSE app

ReplayNextClick(app) ==
    IF Len(app.capturedDrawings) = 0 THEN app
    ELSE IF app.historyIndex < 0
         THEN ReplayDrawingAtIndex(app, 0)
         ELSE IF app.historyIndex < Len(app.capturedDrawings) - 1
              THEN ReplayDrawingAtIndex(app, app.historyIndex + 1)
              ELSE app

ClearDrawingsClick(app) ==
    IF Len(app.capturedDrawings) = 0 \/ app.historyIndex < 0 THEN app
    ELSE LET spliced == SpliceOut(app.capturedDrawings, app.historyIndex)
             cleared == [app EXCEPT
                            !.capturedDrawings = spliced,
                            !.historyIndex =
                                IF Len(spliced) = 0 THEN -1
                                ELSE IF @ >= Len(spliced) THEN Len(spliced) - 1
                                ELSE @]
         IN  IF Len(spliced) > 0 /\ cleared.historyIndex >= 0
             THEN ReplayDrawingAtIndex(cleared, cleared.historyIndex)
             ELSE cleared

(* ---------------------------------------------------------------------- *)
(* Actions                                                                 *)

Geometry(segs) ==
    [i \in 1..Len(segs) |->
        [positions |-> segs[i].positions, uvs |-> segs[i].uvs, indices |-> segs[i].indices]]

(* count: how many builds ran to completion so far, counted up to 2;
   disposed: dispose() was called and no build ran to completion since *)
NoBuild == [done |-> FALSE, ids |-> <<>>, points |-> <<>>, width |-> 0, time |-> 0,
            truncate |-> FALSE, count |-> 0, disposed |-> FALSE]

(* the state after a call that leaves the Ribbon as r *)
Becomes(r, op, points, width, time) ==
    /\ tileManager' = r.tileManager
    /\ meshSegments' = r.meshSegments
    /\ lastPoints' = r.lastPoints
    /\ lastWidth' = r.lastWidth
    /\ truncateSegments' = r.truncateSegments
    /\ scene' = r.scene
    /\ geometries' = r.geometries
    /\ materials' = r.materials
    /\ normalCache' = r.normalCache
    /\ disposedTextures' = r.disposedTextures
    /\ UNCHANGED <<manager, loaded, clock, drawingManager, history>>
    /\ call' = [ op |-> op, points |-> points, width |-> width, time |-> time,
                 threw |-> r.threw, returned |-> r.returned, built |-> r.built ]
    /\ lastBuilt' = IF r.built
                    THEN [ done |-> TRUE,
                           ids |-> [i \in 1..Len(r.meshSegments) |-> r.meshSegments[i].id],
                           points |-> r.lastPoints, width |-> r.lastWidth,
                           time |-> IF op \in {"buildFromPoints", "update"} THEN time ELSE 0,
                           truncate |-> r.truncateSegments,
                           count |-> Min(lastBuilt.count + 1, 2),
                           disposed |-> FALSE ]
                    ELSE [lastBuilt EXCEPT !.disposed = @ \/ op = "dispose"]

(* the fields of new Ribbon(scene) but tileManager, and the module state
   of main.js when it has loaded with nothing in localStorage *)
OtherFieldsInit ==
    /\ meshSegments = Constructor.meshSegments
    /\ lastPoints = Constructor.lastPoints
    /\ lastWidth = Constructor.lastWidth
    /\ truncateSegments = Constructor.truncateSegments
    /\ scene = Constructor.scene
    /\ geometries = Constructor.geometries
    /\ materials = Constructor.materials
    /\ normalCache = Constructor.normalCache
    /\ disposedTextures = Constructor.disposedTextures
    /\ lastBuilt = NoBuild
    /\ drawingManager = DrawingManagerConstructor
    /\ history = NoHistory

(* the fields of new Ribbon(scene) *)
FieldsInit ==
    /\ tileManager = Constructor.tileManager
    /\ OtherFieldsInit

(* const ribbon = new Ribbon(scene) *)
RibbonInit ==
    /\ FieldsInit
    /\ call = [ op |-> "constructor", points |-> <<>>, width |-> 0, time |-> 0,
                threw |-> FALSE, returned |-> "undefined", built |-> FALSE ]

Init ==
    /\ RibbonInit
    /\ manager \in ManagersInUse
    /\ loaded = TRUE
    /\ clock = 0

SetTileManagerCall ==
    Becomes([Self EXCEPT !.tileManager = "tm"], "setTileManager", <<>>, 0, 0)

BuildFromPointsCall ==
    \E args \in BuildArgs :
        Becomes(BuildFromPoints(Self, args[1], args[2], args[3]),
                "buildFromPoints", args[1], args[2], args[3])

UpdateCall ==
    \E time \in Times : Becomes(Update(Self, time), "update", <<>>, 0, time)

DisposeCall == Becomes(Dispose(Self), "dispose", <<>>, 0, 0)

CreateRibbonFromDrawingCall ==
    \E drawPoints \in Drawings :
        Becomes(CreateRibbonFromDrawing(Self, drawPoints),
                "createRibbonFromDrawing", drawPoints, 0, 0)

TruncateToggleClick == Becomes(TruncateToggle(Self), "truncateToggle", <<>>, 0, 0)

Next ==
    \/ SetTileManagerCall
    \/ BuildFromPointsCall
    \/ UpdateCall
    \/ DisposeCall
    \/ CreateRibbonFromDrawingCall
    \/ TruncateToggleClick

Spec == Init /\ [][Next]_vars

(* ---------------------------------------------------------------------- *)
(* The TileManager on its own: loadAllTiles with its tile loads settling   *)
(* one at a time in any order, and the accessors                           *)

ribbonVars == <<tileManager, meshSegments, lastPoints, lastWidth, truncateSegments,
                scene, geometries, materials, normalCache, lastBuilt, disposedTextures,
                drawingManager, history>>

TileCall(op, index, returned) ==
    [ op |-> op, index |-> index, returned |-> returned, threw |-> FALSE ]

TileInit ==
    /\ RibbonInit
    /\ \E source \in Sources, count \in 1..MaxTileCount :
           manager = TileManagerConstructor(source, count)
    /\ loaded = FALSE
    /\ clock = 0

(* tileManager.loadAllTiles(), which main.js calls once, before anything
   else is asked of the TileManager *)
LoadAllTilesCall ==
    /\ ~manager.loading
    /\ ~loaded
    /\ \E ok \in BOOLEAN : manager' = LoadAllTilesStart(manager, ok)
    /\ call' = TileCall("loadAllTiles", 0, Pending)
    /\ UNCHANGED <<ribbonVars, loaded, clock>>

(* the load or error callback of one tile *)
TileLoadSettles ==
    /\ manager.loading
    /\ \E index \in 0..(manager.tileCount - 1), ok \in BOOLEAN, depth \in 1..MaxDepth :
           /\ manager.promises[index + 1] = Pending
           /\ ok \/ depth = 1     \* a file that fails to load has no depth
           /\ manager' = TileSettles(manager, index, ok, depth)
    /\ UNCHANGED <<ribbonVars, loaded, call, clock>>

(* Promise.all resolves and loadAllTiles runs to its return *)
LoadAllTilesReturns ==
    /\ manager.loading
    /\ \A i \in DOMAIN manager.promises : manager.promises[i] # Pending
    /\ manager' = LoadAllTilesDone(manager)
    /\ loaded' = TRUE
    /\ call' = TileCall("loadAllTiles", 0, Undefined)
    /\ UNCHANGED <<ribbonVars, clock>>

GetTileCall ==
    /\ \E index \in 0..MaxIndex :
           call' = TileCall("getTile", index, GetTile(manager, index))
    /\ UNCHANGED <<ribbonVars, manager, loaded, clock>>

GetMaterialCall ==
    /\ \E index \in 0..MaxIndex :
           call' = TileCall("getMaterial", index, GetMaterial(manager, index))
    /\ UNCHANGED <<ribbonVars, manager, loaded, clock>>

(* a frame of the render loop, which main.js starts after it has awaited
   loadAllTiles(): tileManager.tick(performance.now()) *)
TickCall ==
    /\ loaded
    /\ \E frame \in FrameTimes :
           /\ clock + frame <= MaxClock
           /\ clock' = clock + frame
           /\ manager' = Tick(manager, clock + frame)
    /\ call' = TileCall("tick", 0, Undefined)
    /\ UNCHANGED <<ribbonVars, loaded>>

TileNext ==
    \/ LoadAllTilesCall
    \/ TileLoadSettles
    \/ LoadAllTilesReturns
    \/ GetTileCall
    \/ GetMaterialCall
    \/ TickCall

TileSpec == TileInit /\ [][TileNext]_vars

(* ---------------------------------------------------------------------- *)
(* normalizeDrawingPoints on its own: a method that reads and writes no    *)
(* field, applied to every drawing of up to MaxDrawing points on a pixel   *)
(* grid                                                                    *)

(* largest pixel coordinate of a drawing point *)
MaxCoord == 2
(* most points of a drawing *)
MaxDrawing == 3

Pixels == (0..MaxCoord) \X (0..MaxCoord)
GridDrawings == UNION {[1..n -> Pixels] : n \in 0..MaxDrawing}

(* a new Ribbon and a drawing about to be handed to normalizeDrawingPoints *)
DrawingInit ==
    /\ FieldsInit
    /\ manager = TileManagerConstructor("jpg", MaxTileCount)
    /\ loaded = FALSE
    /\ clock = 0
    /\ \E pts \in GridDrawings :
           call = [ op |-> "drawing", points |-> pts, returned |-> <<>>, threw |-> FALSE ]

NormalizeDrawingPointsCall ==
    /\ call.op = "drawing"
    /\ call' = [ op |-> "normalizeDrawingPoints", points |-> call.points,
                 returned |-> NormalizeDrawingPoints(call.points), threw |-> FALSE ]
    /\ UNCHANGED <<ribbonVars, manager, loaded, clock>>

DrawingNext == NormalizeDrawingPointsCall

DrawingSpec == DrawingInit /\ [][DrawingNext]_vars

(* ---------------------------------------------------------------------- *)
(* The DrawingManager on its canvas: pointer events of a pixel grid        *)

ribbonFields == <<tileManager, meshSegments, lastPoints, lastWidth, truncateSegments,
                  scene, geometries, materials, normalCache, lastBuilt, disposedTextures>>

(* completed: the points the event handed to onDrawingComplete *)
PointerCall(op, completed) ==
    [ op |-> op, completed |-> completed, threw |-> FALSE ]

PointerInit ==
    /\ FieldsInit
    /\ manager = TileManagerConstructor("jpg", MaxTileCount)
    /\ loaded = FALSE
    /\ clock = 0
    /\ call = PointerCall("constructor", <<>>)

SetActiveCall ==
    /\ \E active \in BOOLEAN : drawingManager' = SetActive(drawingManager, active)
    /\ call' = PointerCall("setActive", <<>>)
    /\ UNCHANGED <<ribbonFields, manager, loaded, clock, history>>

PointerDownEvent ==
    /\ \E clientX \in ClientCoords, clientY \in ClientRows :
           drawingManager' =
               IF "handlePointerDown" \in Handlers(drawingManager, "pointerdown")
               THEN HandlePointerDown(drawingManager, clientX, clientY)
               ELSE drawingManager
    /\ call' = PointerCall("pointerdown", <<>>)
    /\ UNCHANGED <<ribbonFields, manager, loaded, clock, history>>

PointerMoveEvent ==
    /\ Len(drawingManager.points) < MaxStroke
    /\ \E clientX \in ClientCoords, clientY \in ClientRows, buttons \in {0, 1} :
           /\ drawingManager' =
                  IF "handlePointerMove" \in Handlers(drawingManager, "pointermove")
                  THEN HandlePointerMove(drawingManager, clientX, clientY, buttons)
                  ELSE drawingManager
           /\ call' = PointerCall("pointermove", <<>>)
    /\ UNCHANGED <<ribbonFields, manager, loaded, clock, history>>

(* pointerup and pointercancel both run handlePointerUp *)
PointerUpEvent ==
    /\ \E type \in {"pointerup", "pointercancel"} :
           call' = PointerCall(type,
                               IF "handlePointerUp" \in Handlers(drawingManager, type)
                               THEN HandlePointerUp(drawingManager)
                               ELSE <<>>)
    /\ UNCHANGED <<ribbonFields, manager, loaded, clock, drawingManager, history>>

(* drawingManager.dispose(), the beforeunload handler of main.js *)
DrawingDisposeCall ==
    /\ drawingManager' = DrawingDispose(drawingManager)
    /\ call' = PointerCall("dispose", <<>>)
    /\ UNCHANGED <<ribbonFields, manager, loaded, clock, history>>

PointerNext ==
    \/ SetActiveCall
    \/ PointerDownEvent
    \/ PointerMoveEvent
    \/ PointerUpEvent
    \/ DrawingDisposeCall

PointerSpec == PointerInit /\ [][PointerNext]_vars

(* ---------------------------------------------------------------------- *)
(* main.js after initializeRibbon: completed drawings and the history      *)
(* buttons                                                                 *)

HistoryCall(op, threw) == [op |-> op, threw |-> threw]

(* ribbon = new Ribbon(scene); ribbon.setTileManager(tileManager), after
   await tileManager.loadAllTiles() *)
HistoryInit ==
    /\ OtherFieldsInit
    /\ tileManager = "tm"
    /\ manager \in ManagersInUse
    /\ loaded = TRUE
    /\ clock = 0
    /\ call = HistoryCall("initializeRibbon", FALSE)

(* the state after a handler that leaves main.js and its ribbon as app *)
AppBecomes(app, op) ==
    /\ history' = [ capturedDrawings |-> app.capturedDrawings,
                    drawingCounter |-> app.drawingCounter,
                    historyIndex |-> app.historyIndex ]
    /\ tileManager' = app.ribbon.tileManager
    /\ meshSegments' = app.ribbon.meshSegments
    /\ lastPoints' = app.ribbon.lastPoints
    /\ lastWidth' = app.ribbon.lastWidth
    /\ truncateSegments' = app.ribbon.truncateSegments
    /\ scene' = app.ribbon.scene
    /\ geometries' = app.ribbon.geometries
    /\ materials' = app.ribbon.materials
    /\ normalCache' = app.ribbon.normalCache
    /\ disposedTextures' = app.ribbon.disposedTextures
    /\ call' = HistoryCall(op, app.threw)
    /\ UNCHANGED <<lastBuilt, manager, loaded, clock, drawingManager>>

HandleDrawingCompleteCall ==
    /\ history.drawingCounter < MaxCaptured
    /\ \E strokesData \in BuildableDrawings :
           AppBecomes(HandleDrawingComplete(App(history, Self), strokesData),
                      "handleDrawingComplete")

ReplayClickEvent == AppBecomes(ReplayClick(App(history, Self)), "replay")

ReplayPrevClickEvent == AppBecomes(ReplayPrevClick(App(history, Self)), "replayPrev")

ReplayNextClickEvent == AppBecomes(ReplayNextClick(App(history, Self)), "replayNext")

ClearDrawingsClickEvent == AppBecomes(ClearDrawingsClick(App(history, Self)), "clearDrawings")

HistoryNext ==
    \/ HandleDrawingCompleteCall
    \/ ReplayClickEvent
    \/ ReplayPrevClickEvent
    \/ ReplayNextClickEvent
    \/ ClearDrawingsClickEvent

HistorySpec == HistoryInit /\ [][HistoryNext]_vars

(* ---------------------------------------------------------------------- *)
(* Properties                                                              *)

BuildCalls == {"buildFromPoints", "createRibbonFromDrawing"}

(* C1: a buildFromPoints or createRibbonFromDrawing call with fewer than 2
   points creates no segment, does not throw, returns nothing, and leaves
   meshSegments, the scene's children, lastPoints and lastWidth exactly as
   they were, whether or not an earlier build succeeded. *)
C1_ShortInputIsNoOp ==
    [][ (call'.op \in BuildCalls /\ Len(call'.points) < 2)
        => /\ ~call'.threw
           /\ ~call'.built
           /\ call'.returned = "undefined"
           /\ UNCHANGED <<meshSegments, scene, lastPoints, lastWidth,
                          geometries, materials>> ]_vars

(* a short call made while the segments of an earlier build are live *)
C1_Witness ==
    /\ call.op \in BuildCalls
    /\ Len(call.points) < 2
    /\ meshSegments # <<>>
    /\ lastBuilt.done

SceneIsMeshSegments ==
    /\ Len(scene) = Len(meshSegments)
    /\ SeqRange(scene) = MeshIds(meshSegments)

(* C2 as stated: at every moment the ribbon meshes in the scene are
   meshSegments and are exactly the segments of the most recent successful
   build.  dispose() empties both, so this does not hold. *)
C2_Original ==
    /\ SceneIsMeshSegments
    /\ [i \in 1..Len(meshSegments) |-> meshSegments[i].id] = lastBuilt.ids

(* C2, amended: at every moment the ribbon meshes in the scene are
   meshSegments, and meshSegments is either empty or exactly the segments of
   the most recent successful build; the geometry and material of every other
   segment ever created are disposed, so the number of live segments is that
   of the current build and never accumulates across rebuilds. *)
C2_Amended ==
    /\ SceneIsMeshSegments
    /\ \/ meshSegments = <<>>
       \/ [i \in 1..Len(meshSegments) |-> meshSegments[i].id] = lastBuilt.ids
    /\ geometries = MeshIds(meshSegments)
    /\ materials = MeshIds(meshSegments)
    /\ Cardinality(MeshIds(meshSegments)) = Len(meshSegments)

(* an update that rebuilt a ribbon of several segments *)
C2_Witness ==
    /\ call.op = "update"
    /\ call.built
    /\ lastBuilt.count = 2
    /\ Len(meshSegments) >= 2

(* n = max(1, ceil(L / w)), stated without the division *)
IsCeilCount(n, L, w) ==
    /\ n >= 1
    /\ n * w >= L
    /\ n > 1 => (n - 1) * w < L

C3_Count ==
    call.built =>
        IsCeilCount(Len(meshSegments), CalculatePathLength(lastPoints), lastWidth)

C3_Monotone ==
    [][ ( /\ lastBuilt.done
          /\ call'.built
          /\ lastBuilt'.width = lastBuilt.width
          /\ \/ lastBuilt'.points = lastBuilt.points
             \/ CalculatePathLength(lastBuilt'.points)
                  >= CalculatePathLength(lastBuilt.points) )
        => Len(lastBuilt'.ids) >= Len(lastBuilt.ids) ]_vars

(* C3: a build of at least 2 points with path length L and width w > 0 that
   returns creates exactly max(1, ceil(L / w)) segments, at least one, and for
   a fixed width the count does not decrease when L increases.  (A build on a
   Ribbon that has no tile manager does not return: C10.) *)
C3_SegmentCount == []C3_Count /\ C3_Monotone

(* a completed build whose length is not a multiple of the width: ceil rounds up *)
C3_Witness ==
    /\ call.op = "buildFromPoints"
    /\ call.built
    /\ Len(meshSegments) = 2
    /\ CalculatePathLength(lastPoints) % lastWidth # 0

(* C4: every segment is a strip of exactly 2 * (maxPoints + 1) vertices and
   2 * maxPoints triangles: the 6 * maxPoints indices are, for i from 0 to
   maxPoints - 1, (2i, 2i+1, 2i+2) and (2i+1, 2i+3, 2i+2), and every index is
   below 2 * (maxPoints + 1). *)
C4_StripTopology ==
    \A k \in DOMAIN meshSegments :
        LET m == meshSegments[k]
            maxPoints == MaxPoints(lastBuilt.truncate)
        IN  /\ Len(m.positions) = 3 * 2 * (maxPoints + 1)
            /\ Len(m.uvs) = 2 * 2 * (maxPoints + 1)
            /\ Len(m.indices) = 6 * maxPoints
            /\ \A i \in 0..(maxPoints - 1) :
                   SubSeq(m.indices, 6 * i + 1, 6 * i + 6)
                     = <<2 * i, 2 * i + 1, 2 * i + 2, 2 * i + 1, 2 * i + 3, 2 * i + 2>>
            /\ \A j \in DOMAIN m.indices :
                   m.indices[j] >= 0 /\ m.indices[j] < 2 * (maxPoints + 1)

(* a ribbon of several untruncated segments *)
C4_Witness ==
    /\ Len(meshSegments) >= 2
    /\ ~lastBuilt.truncate
    /\ call.built

(* the index of the last sample a segment walks to *)
LastSample(m) == Len(m.uvs) \div 4 - 1

(* C5: with truncateSegments enabled every segment's walk ends at sample
   floor(50 * 0.99) = 49 and not 50, so the segment has strictly fewer
   triangles than the same segment built with the flag disabled (whose walk
   ends at 50); the number of segments is the same for both values of the
   flag. *)
C5_Truncation ==
    meshSegments # <<>> =>
        LET twin == Built(~lastBuilt.truncate, lastBuilt.points,
                          lastBuilt.width, lastBuilt.time).segments
        IN  /\ Len(twin) = Len(meshSegments)
            /\ \A k \in DOMAIN meshSegments :
                 /\ LastSample(meshSegments[k])
                      = (IF lastBuilt.truncate THEN 49 ELSE pointsPerSegment)
                 /\ lastBuilt.truncate
                      => Len(meshSegments[k].indices) < Len(twin[k].indices)
                 /\ ~lastBuilt.truncate
                      => Len(meshSegments[k].indices) > Len(twin[k].indices)

(* the toggle switched truncation on and rebuilt a ribbon of several segments *)
C5_Witness ==
    /\ call.op = "truncateToggle"
    /\ call.built
    /\ lastBuilt.truncate
    /\ Len(meshSegments) >= 2

(* a Ribbon that has just been constructed and given the same tile manager
   and truncate flag *)
NewRibbon ==
    [Constructor EXCEPT !.tileManager = tileManager,
                        !.truncateSegments = truncateSegments]

(* C6: a buildFromPoints call of at least 2 points leaves segments with the
   positions, UVs and indices that the same call gives on a newly constructed
   Ribbon with the same truncate flag (wave parameters are fixed): nothing
   that was built, updated or disposed before has any effect, so two calls
   with identical points, width and time give identical segments. *)
C6_Deterministic ==
    (call.op = "buildFromPoints" /\ Len(call.points) >= 2) =>
        Geometry(meshSegments)
          = Geometry(BuildFromPoints(NewRibbon, call.points, call.width,
                                     call.time).meshSegments)

(* a completed buildFromPoints that came after an earlier completed build *)
C6_Witness ==
    /\ call.op = "buildFromPoints"
    /\ call.built
    /\ lastBuilt.count = 2
    /\ Len(meshSegments) >= 2

(* C7: update(time) has the effect of buildFromPoints(lastPoints, lastWidth,
   time): it leaves the segments, scene and resources that call leaves,
   keeps lastPoints and lastWidth, and when segments were live it recreates
   the same number of them. *)
C7_UpdateIsRebuild ==
    [][ call'.op = "update"
        => LET r == BuildFromPoints(Self, lastPoints, lastWidth, call'.time)
           IN  /\ meshSegments' = r.meshSegments
               /\ scene' = r.scene
               /\ geometries' = r.geometries
               /\ materials' = r.materials
               /\ call'.threw = r.threw
               /\ lastPoints' = lastPoints
               /\ lastWidth' = lastWidth
               /\ meshSegments # <<>> => Len(meshSegments') = Len(meshSegments) ]_vars

(* an update at a later time that rebuilt a ribbon of the drawing width *)
C7_Witness ==
    /\ call.op = "update"
    /\ call.built
    /\ call.time > 0
    /\ lastWidth = DrawingWidth
    /\ Len(meshSegments) >= 2

NoZeroNoFlip(cache) ==
    \A i \in DOMAIN cache :
        /\ cache[i] # ZeroVec
        /\ i > 1 => Dot(cache[i - 1], cache[i]) >= 0

(* C8 as stated: for every input path, the ones with coincident consecutive
   points included, no sample of the normal field is zero and adjacent
   samples never have a negative dot product. *)
C8_Original == Len(lastPoints) >= 2 => NoZeroNoFlip(normalCache)

(* C8, amended: when the curve's tangent at t = 0 is not zero, no sample of
   the normal field is zero and adjacent samples never have a negative dot
   product, also when that tangent is parallel to up and when later
   consecutive points coincide; when the tangent at t = 0 is zero (the path
   starts with coincident points) every sample is the zero vector. *)
C8_Amended ==
    Len(lastPoints) >= 2 =>
        IF Normalize(GetTangent(lastPoints, <<0, 1>>)) = ZeroVec
        THEN \A i \in DOMAIN normalCache : normalCache[i] = ZeroVec
        ELSE NoZeroNoFlip(normalCache)

(* a build of a path that runs along up *)
C8_Witness ==
    /\ call.built
    /\ Len(lastPoints) >= 2
    /\ Cross(<<0, FP, 0>>, Normalize(GetTangent(lastPoints, <<0, 1>>))) = ZeroVec
    /\ normalCache[1] # ZeroVec

AllCoincident(pts) == \A i \in DOMAIN pts : pts[i] = pts[1]

(* C9: a createRibbonFromDrawing call whose 2 or more points all coincide
   builds nothing: no segment is created and the result is absent. *)
C9_ShortCircuit ==
    ( /\ call.op = "createRibbonFromDrawing"
      /\ Len(call.points) >= 2
      /\ AllCoincident(call.points) )
    => (~call.built /\ call.returned = "undefined")

(* C10: no call of buildFromPoints, update or createRibbonFromDrawing
   throws, in any state the public methods reach. *)
C10_NoThrow == ~call.threw

(* ---------------------------------------------------------------------- *)
(* The tile provider                                                       *)

FullGeometry(m, maxPoints) ==
    /\ Len(m.positions) = 3 * 2 * (maxPoints + 1)
    /\ Len(m.uvs) = 2 * 2 * (maxPoints + 1)
    /\ Len(m.indices) = 6 * maxPoints

(* C11: when getTile returns undefined for a segment index, the build still
   emits that segment with its full geometry: after every build that ran to
   completion meshSegments holds one mesh per segment index 0..count-1, in
   order, count being the computed segment count, and the mesh of an index
   without tile has no map and the full strip of vertices, UVs and indices. *)
C11_UntexturedSegmentsEmitted ==
    call.built =>
        /\ Len(meshSegments) = SegmentCount(lastPoints, lastWidth)
        /\ \A s \in 0..(SegmentCount(lastPoints, lastWidth) - 1) :
               /\ meshSegments[s + 1].segmentIndex = s
               /\ GetTile(manager, s) = Undefined =>
                      /\ meshSegments[s + 1].map = Undefined
                      /\ FullGeometry(meshSegments[s + 1], MaxPoints(truncateSegments))

(* a build of several segments with a tile manager that has no tile *)
C11_Witness ==
    /\ call.built
    /\ Len(meshSegments) >= 2
    /\ \A s \in 0..(Len(meshSegments) - 1) : GetTile(manager, s) = Undefined

Renderable == {"Texture", "CanvasTexture", "ShaderMaterial", "MeshBasicMaterial"}

(* C12: once loadAllTiles has completed, getTile(s) returns a renderable
   surface for every s >= 0 in every source mode: the loaded or fallback
   tile at position s mod tileCount. *)
C12_GetTileAfterLoad ==
    (loaded /\ call.op = "getTile") =>
        /\ ~call.threw
        /\ call.returned.kind \in Renderable
        /\ call.returned.tile = call.index % manager.tileCount

(* ---------------------------------------------------------------------- *)
(* The normal field                                                        *)

(* the reference normal as C13 states it: the fallback is taken whenever the
   length of up x tangent is below the threshold 0.1 *)
ThresholdReferenceNormal(initialTangent) ==
    IF VLength(Cross(<<0, FP, 0>>, initialTangent)) < FP \div 10
    THEN Normalize(Cross(<<FP, 0, 0>>, initialTangent))
    ELSE Normalize(Cross(<<0, FP, 0>>, initialTangent))

(* C13 as stated: the initial reference normal (the first entry of the
   normal field) is normalize(up x tangent(0)), except that it is
   normalize(right x tangent(0)) whenever the length of up x tangent(0) is
   below the threshold; for a unit initial tangent it is not the zero
   vector.  The code normalizes before it compares, so a tangent that is
   nearly parallel to up keeps up x tangent. *)
C13_Original ==
    (call.built /\ Normalize(GetTangent(lastPoints, <<0, 1>>)) # ZeroVec) =>
        /\ normalCache[1] = ThresholdReferenceNormal(Normalize(GetTangent(lastPoints, <<0, 1>>)))
        /\ normalCache[1] # ZeroVec

(* the reference normal with the fallback taken only for a vanishing up x tangent *)
ExactReferenceNormal(initialTangent) ==
    IF Cross(<<0, FP, 0>>, initialTangent) = ZeroVec
    THEN Normalize(Cross(<<FP, 0, 0>>, initialTangent))
    ELSE Normalize(Cross(<<0, FP, 0>>, initialTangent))

(* C13, amended: the initial reference normal is normalize(up x tangent(0)),
   except that it is normalize(right x tangent(0)) when up x tangent(0) is
   the zero vector (tangent exactly parallel to up); a tangent that is only
   nearly parallel to up keeps normalize(up x tangent(0)).  For every unit
   initial tangent the reference normal is not the zero vector. *)
C13_Amended ==
    (call.built /\ Normalize(GetTangent(lastPoints, <<0, 1>>)) # ZeroVec) =>
        /\ normalCache[1] = ExactReferenceNormal(Normalize(GetTangent(lastPoints, <<0, 1>>)))
        /\ normalCache[1] # ZeroVec

(* a build whose initial tangent is nearly, not exactly, parallel to up: the
   length of up x tangent is below the threshold and not 0 *)
C13_Witness ==
    /\ call.built
    /\ Cross(<<0, FP, 0>>, Normalize(GetTangent(lastPoints, <<0, 1>>))) # ZeroVec
    /\ VLength(Cross(<<0, FP, 0>>, Normalize(GetTangent(lastPoints, <<0, 1>>)))) < FP \div 10

FlipCorrected(normal, prevNormal) ==
    IF Dot(normal, prevNormal) < 0 THEN VNeg(normal) ELSE normal

(* the candidate normal of a sample: (tangent x prevNormal) x tangent, both
   normalized, negated when it points away from prevNormal *)
CandidateNormal(tangent, prevNormal) ==
    FlipCorrected(Normalize(Cross(Normalize(Cross(tangent, prevNormal)), tangent)),
                  prevNormal)

(* the candidate of entry i (counted from 1) of a normal field over points *)
CandidateAt(points, cache, i) ==
    CandidateNormal(Normalize(GetTangent(points, Frac(i - 1, Len(cache) - 1))),
                    cache[i - 1])

(* C14 as stated: every normal-field sample after the first is the candidate
   moved one tenth of the way to the previous sample (weight 0.9 on the
   candidate, 0.1 on the previous normal), renormalized.  The code starts at
   the previous normal instead. *)
C14_Original ==
    call.built =>
        \A i \in 2..Len(normalCache) :
            normalCache[i]
              = Normalize(Lerp(CandidateAt(lastPoints, normalCache, i),
                               normalCache[i - 1], FP \div 10))

(* C14, amended: every normal-field sample after the first is the previous
   sample moved one tenth of the way to the flip-corrected candidate (weight
   0.9 on the previous normal, 0.1 on the candidate), renormalized. *)
C14_Amended ==
    call.built =>
        \A i \in 2..Len(normalCache) :
            normalCache[i]
              = Normalize(Lerp(normalCache[i - 1],
                               CandidateAt(lastPoints, normalCache, i), FP \div 10))

(* a build over a path that turns: some candidate is neither the previous
   normal nor zero *)
C14_Witness ==
    /\ call.built
    /\ \E i \in 2..Len(normalCache) :
           /\ CandidateAt(lastPoints, normalCache, i) # normalCache[i - 1]
           /\ CandidateAt(lastPoints, normalCache, i) # ZeroVec

(* a x b without rounding *)
ExactCross(a, b) ==
    << a[2] * b[3] - a[3] * b[2], a[3] * b[1] - a[1] * b[3], a[1] * b[2] - a[2] * b[1] >>

(* every step of the path runs along the chord from the first to the last
   point and none runs against it; a path that ends where it starts is
   straight when all its points coincide *)
StraightLine(points) ==
    /\ \A i \in 1..(Len(points) - 1) :
           /\ ExactCross(VSub(points[i + 1], points[i]),
                         VSub(points[Len(points)], points[1])) = ZeroVec
           /\ VSub(points[i + 1], points[i])[1] * VSub(points[Len(points)], points[1])[1]
                + VSub(points[i + 1], points[i])[2] * VSub(points[Len(points)], points[1])[2]
                + VSub(points[i + 1], points[i])[3] * VSub(points[Len(points)], points[1])[3]
                >= 0
    /\ points[Len(points)] = points[1] => \A i \in DOMAIN points : points[i] = points[1]

(* C20: for a straight-line path every entry of the normal field equals the
   initial reference normal, its first entry, in every segment. *)
C20_StraightPathNormals ==
    (call.built /\ StraightLine(lastPoints)) =>
        \A i \in DOMAIN normalCache : normalCache[i] = normalCache[1]

(* a straight path that does not run along an axis, of several segments *)
C20_Witness ==
    /\ call.built
    /\ StraightLine(lastPoints)
    /\ lastPoints[Len(lastPoints)][1] # lastPoints[1][1]
    /\ lastPoints[Len(lastPoints)][2] # lastPoints[1][2]
    /\ Len(meshSegments) >= 2
    /\ normalCache[1] # ZeroVec

(* ---------------------------------------------------------------------- *)
(* Segments                                                                *)

(* the first and the last left/right vertex pair of a mesh *)
FirstPair(m) == SubSeq(m.positions, 1, 6)
LastPair(m) == SubSeq(m.positions, Len(m.positions) - 5, Len(m.positions))

FracLess(a, b) == a[1] * b[2] < b[1] * a[2]

(* the curve parameter and the normal-field index of sample i of segment s,
   of n segments *)
SampleParameter(s, n, i) ==
    GlobalT(Frac(s, n), Frac(s + 1, n), Frac(i, pointsPerSegment))
SampleCacheIdx(s, i) == s * pointsPerSegment + i

Seamless(s, n) ==
    /\ SampleParameter(s, n, LastSample(meshSegments[s + 1])) = SampleParameter(s + 1, n, 0)
    /\ SampleCacheIdx(s, LastSample(meshSegments[s + 1])) = SampleCacheIdx(s + 1, 0)
    /\ LastPair(meshSegments[s + 1]) = FirstPair(meshSegments[s + 2])

(* C15 as stated: for every s with 0 <= s < segmentCount - 1 the last sample
   of segment s and the first sample of segment s + 1 are taken at the same
   curve parameter and from the same normal-field entry, and the last vertex
   pair of segment s is the first vertex pair of segment s + 1.  With
   truncation, the default, the walk of a segment stops one sample short. *)
C15_Original ==
    call.built =>
        \A s \in 0..(Len(meshSegments) - 2) : Seamless(s, Len(meshSegments))

(* the last sample of segment s is sample 49, one sample before the first
   sample of segment s + 1 *)
OneSampleShort(s, n) ==
    /\ LastSample(meshSegments[s + 1]) = pointsPerSegment - 1
    /\ FracLess(SampleParameter(s, n, pointsPerSegment - 1), SampleParameter(s + 1, n, 0))
    /\ SampleCacheIdx(s, pointsPerSegment - 1) = SampleCacheIdx(s + 1, 0) - 1

(* C15, amended: with truncateSegments off, for every s with
   0 <= s < segmentCount - 1 the last sample of segment s and the first
   sample of segment s + 1 are taken at the same curve parameter and from the
   same normal-field entry, and the last vertex pair of segment s is the
   first vertex pair of segment s + 1; with truncateSegments on, the last
   sample of segment s is sample 49, taken at a smaller curve parameter and
   from the normal-field entry before that of the first sample of
   segment s + 1. *)
C15_Amended ==
    call.built =>
        \A s \in 0..(Len(meshSegments) - 2) :
            IF truncateSegments THEN OneSampleShort(s, Len(meshSegments))
            ELSE Seamless(s, Len(meshSegments))

(* an animated rebuild of several untruncated segments *)
C15_Witness ==
    /\ call.built
    /\ call.op = "update"
    /\ call.time # 0
    /\ ~truncateSegments
    /\ Len(meshSegments) >= 2

(* the left/right vertex pair of sample i of a mesh *)
PairAt(m, i) == SubSeq(m.positions, 6 * i + 1, 6 * i + 6)

(* sample i of segment s, of n segments: its cache index lies within the
   field, its curve parameter is (s * 50 + i) / (n * 50), the parameter
   i / (totalPoints - 1) the entry at that index was computed at, and its
   vertex pair is the one made from that entry *)
ReadsItsEntry(s, n, i) ==
    /\ SampleCacheIdx(s, i) >= 0
    /\ SampleCacheIdx(s, i) < Len(normalCache)
    /\ SampleParameter(s, n, i) = Frac(s * pointsPerSegment + i, n * pointsPerSegment)
    /\ SampleParameter(s, n, i) = Frac(SampleCacheIdx(s, i), Len(normalCache) - 1)
    /\ PairAt(meshSegments[s + 1], i)
         = SampleAt(lastPoints, SampleParameter(s, n, i), lastWidth, lastBuilt.time,
                    normalCache[SampleCacheIdx(s, i) + 1], 0, <<>>).positions

(* C16: the normal field has exactly segmentCount * pointsPerSegment + 1
   entries, and for every segment s and every sample i walked in it the cache
   index s * pointsPerSegment + i lies within the field and was computed at
   the sample's curve parameter (s * pointsPerSegment + i) /
   (segmentCount * pointsPerSegment): no segment reads past the end. *)
C16_CacheIndexing ==
    call.built =>
        /\ Len(normalCache) = Len(meshSegments) * pointsPerSegment + 1
        /\ \A s \in 0..(Len(meshSegments) - 1) :
               \A i \in 0..LastSample(meshSegments[s + 1]) :
                   ReadsItsEntry(s, Len(meshSegments), i)

(* an untruncated build of several segments: the last segment reads the last
   entry of the field *)
C16_Witness ==
    /\ call.built
    /\ ~truncateSegments
    /\ Len(meshSegments) >= 3
    /\ SampleCacheIdx(Len(meshSegments) - 1, LastSample(meshSegments[Len(meshSegments)]))
         = Len(normalCache) - 1

(* the U of the left vertex of sample i of a mesh; uvs holds left u, left v,
   right u, right v for every sample *)
UAt(m, i) == m.uvs[4 * i + 1]

(* C17: in every segment the UV pair of sample i is (i / pointsPerSegment, 0)
   for the left vertex and (i / pointsPerSegment, 1) for the right one: U
   starts at 0, does not decrease along the walk, never exceeds 1, and is
   computed from pointsPerSegment, so the last U is 49/50 with truncation and
   1 without. *)
C17_UVs ==
    \A k \in DOMAIN meshSegments :
        /\ \A i \in 0..LastSample(meshSegments[k]) :
               /\ UAt(meshSegments[k], i) * pointsPerSegment = i * FP
               /\ meshSegments[k].uvs[4 * i + 2] = 0
               /\ meshSegments[k].uvs[4 * i + 3] = UAt(meshSegments[k], i)
               /\ meshSegments[k].uvs[4 * i + 4] = FP
               /\ UAt(meshSegments[k], i) <= FP
               /\ i > 0 => UAt(meshSegments[k], i - 1) <= UAt(meshSegments[k], i)
        /\ UAt(meshSegments[k], 0) = 0
        /\ UAt(meshSegments[k], LastSample(meshSegments[k]))
             = (IF lastBuilt.truncate THEN (49 * FP) \div 50 ELSE FP)

(* the truncated segments of a drawing: their last U is below 1 *)
C17_Witness ==
    /\ call.op = "createRibbonFromDrawing"
    /\ call.built
    /\ truncateSegments
    /\ Len(meshSegments) >= 2
    /\ UAt(meshSegments[1], LastSample(meshSegments[1])) < FP

(* ---------------------------------------------------------------------- *)
(* The curve                                                               *)

(* floor(t * (n - 1)) and min(ceil(t * (n - 1)), n - 1), for t = t[1] / t[2] *)
FloorIndex(n, t) == (t[1] * (n - 1)) \div t[2]
CeilIndex(n, t) == Min(-((-(t[1] * (n - 1))) \div t[2]), n - 1)

(* position(t) over points: the two neighbour indices are within 0..N-1 and
   at most 1 apart, and the point is the interpolation between the two
   neighbours by the remainder t * (N - 1) - floor(t * (N - 1)) *)
InterpolatesAt(points, t) ==
    /\ FloorIndex(Len(points), t) \in 0..(Len(points) - 1)
    /\ CeilIndex(Len(points), t) \in 0..(Len(points) - 1)
    /\ CeilIndex(Len(points), t) - FloorIndex(Len(points), t) \in {0, 1}
    /\ GetPoint(points, t)
         = LerpVectors(points[FloorIndex(Len(points), t) + 1],
                       points[CeilIndex(Len(points), t) + 1],
                       t[1] * (Len(points) - 1) - FloorIndex(Len(points), t) * t[2],
                       t[2])

(* the vertex pair of sample i of a mesh lies around the point q: left and
   right are q - d and q + d *)
PairAround(pair, q) ==
    <<pair[1] + pair[4], pair[2] + pair[5], pair[3] + pair[6]>>
      = <<2 * q[1], 2 * q[2], 2 * q[3]>>

(* C18: for a curve over N >= 2 points, position(0) is the first point and
   position(1) the last, and at every parameter a segment samples (every
   multiple of 1 / (50 * segmentCount) in [0,1] when untruncated) the two
   neighbour indices are within 0..N-1 and at most 1 apart and the position
   is the linear interpolation between those two points by the fractional
   remainder; the sample's vertex pair lies around that position. *)
C18_CurvePosition ==
    call.built =>
        /\ GetPoint(lastPoints, <<0, 1>>) = lastPoints[1]
        /\ GetPoint(lastPoints, <<1, 1>>) = lastPoints[Len(lastPoints)]
        /\ \A s \in 0..(Len(meshSegments) - 1) :
               \A i \in 0..LastSample(meshSegments[s + 1]) :
                   /\ InterpolatesAt(lastPoints, SampleParameter(s, Len(meshSegments), i))
                   /\ PairAround(PairAt(meshSegments[s + 1], i),
                                 GetPoint(lastPoints, SampleParameter(s, Len(meshSegments), i)))

(* a build over 3 points, untruncated: it samples the ends, the interior
   point, and strictly between the second and the third point *)
C18_Witness ==
    /\ call.built
    /\ ~truncateSegments
    /\ Len(lastPoints) = 3
    /\ lastPoints[3] # lastPoints[2]
    /\ \E s \in 0..(Len(meshSegments) - 1) :
           \E i \in 0..LastSample(meshSegments[s + 1]) :
               /\ FloorIndex(3, SampleParameter(s, Len(meshSegments), i)) = 1
               /\ CeilIndex(3, SampleParameter(s, Len(meshSegments), i)) = 2

(* ---------------------------------------------------------------------- *)
(* normalizeDrawingPoints                                                  *)

(* the difference of coordinate k between output points i and j is 8 /
   maxDimension times sign times that of the input points, up to the
   rounding of the two outputs *)
ScaledBy(in, out, maxDimension, k, sign, i, j) ==
    Abs((out[i][k] - out[j][k]) * maxDimension
          - sign * 8 * FP * (in[i][k] - in[j][k])) <= maxDimension

NormalizedBox(in, out, maxDimension) ==
    /\ Len(out) = Len(in)
    /\ MinOf(out, 1, 1) = -MaxOf(out, 1, 1)
    /\ MinOf(out, 2, 1) = -MaxOf(out, 2, 1)
    /\ Max(MaxOf(out, 1, 1) - MinOf(out, 1, 1), MaxOf(out, 2, 1) - MinOf(out, 2, 1)) = 8 * FP
    /\ \A i \in DOMAIN out :
           /\ out[i][1] >= -4 * FP /\ out[i][1] <= 4 * FP
           /\ out[i][2] >= -4 * FP /\ out[i][2] <= 4 * FP
    /\ \A i, j \in DOMAIN out :
           /\ ScaledBy(in, out, maxDimension, 1, 1, i, j)
           /\ ScaledBy(in, out, maxDimension, 2, -1, i, j)
           /\ in[i][2] > in[j][2] => out[i][2] < out[j][2]

BoxSize(pts) ==
    Max(MaxOf(pts, 1, 1) - MinOf(pts, 1, 1), MaxOf(pts, 2, 1) - MinOf(pts, 2, 1))

(* C19: normalizeDrawingPoints maps a sequence of 2 or more points whose
   bounding box is not a single point to a sequence of the same length whose
   bounding box is centred on the origin and whose larger dimension spans
   exactly 8 units, every coordinate within [-4, 4], with one scale factor
   for both axes and the Y axis inverted: a point with larger input y gets
   smaller output y. *)
C19_NormalizeDrawingPoints ==
    ( /\ call.op = "normalizeDrawingPoints"
      /\ Len(call.points) >= 2
      /\ BoxSize(call.points) > 0 )
    => NormalizedBox(call.points, call.returned, BoxSize(call.points))

(* a drawing of 3 points that is wider than high and rises from its first
   to its second point *)
C19_Witness ==
    /\ call.op = "normalizeDrawingPoints"
    /\ Len(call.points) = 3
    /\ MaxOf(call.points, 1, 1) - MinOf(call.points, 1, 1)
         > MaxOf(call.points, 2, 1) - MinOf(call.points, 2, 1)
    /\ call.points[1][2] < call.points[2][2]
    /\ call.returned[1][2] > call.returned[2][2]

(* ---------------------------------------------------------------------- *)
(* Animation                                                               *)

(* the mesh has the UVs, the indices and the number of vertices of the
   segment g of another build *)
SameTopology(m, g) ==
    /\ m.uvs = g.uvs
    /\ m.indices = g.indices
    /\ Len(m.positions) = Len(g.positions)

(* the segments of the latest build are, up to vertex positions, those of
   the same build at time 0 *)
TimeMovesVerticesOnly(still) ==
    /\ Len(meshSegments) = Len(still)
    /\ \A k \in DOMAIN meshSegments : SameTopology(meshSegments[k], still[k])

(* C21: for every sample of every segment and every time, the left and the
   right vertex are point - d and point + d for one vector d, so their
   midpoint is the curve point at the sample's globalT; the time changes
   vertex positions only: the segment count, the vertex count, the UVs and
   the indices are those of the build at time 0. *)
C21_WaveKeepsCentreLine ==
    call.built =>
        /\ \A s \in 0..(Len(meshSegments) - 1) :
               \A i \in 0..LastSample(meshSegments[s + 1]) :
                   PairAround(PairAt(meshSegments[s + 1], i),
                              GetPoint(lastPoints, SampleParameter(s, Len(meshSegments), i)))
        /\ TimeMovesVerticesOnly(Built(truncateSegments, lastPoints, lastWidth, 0).segments)

(* an update at a time other than 0 that moved a vertex of a ribbon of
   several segments *)
C21_Witness ==
    /\ call.built
    /\ call.op = "update"
    /\ lastBuilt.time # 0
    /\ Len(meshSegments) >= 2
    /\ Geometry(meshSegments)
         # Geometry(Built(truncateSegments, lastPoints, lastWidth, 0).segments)

(* ---------------------------------------------------------------------- *)
(* Ownership                                                               *)

(* C22: rebuilds and disposal release only what the ribbon created: after
   every call the live geometries and materials are those of the current
   segments, one of each per segment, so every old segment's geometry and
   material is disposed, and no call disposes a texture or material of the
   tile provider or changes the provider, its tiles array included. *)
C22_ReleasesOnlyItsOwn ==
    [][ /\ manager' = manager
        /\ manager'.tiles = manager.tiles
        /\ disposedTextures' = disposedTextures
        /\ geometries' = MeshIds(meshSegments')
        /\ materials' = MeshIds(meshSegments')
        /\ Cardinality(MeshIds(meshSegments')) = Len(meshSegments') ]_vars

(* an update rebuilt a ribbon whose segments carry the provider's textures *)
C22_Witness ==
    /\ call.op = "update"
    /\ call.built
    /\ lastBuilt.count = 2
    /\ Len(manager.tiles) > 0
    /\ \A k \in DOMAIN meshSegments : meshSegments[k].map = GetTile(manager, k - 1)
    /\ meshSegments[1].map # Undefined
    /\ disposedTextures = {}

(* C23: dispose() leaves no segment, nothing in the scene and no stored
   points, and from then until a build runs to completion every update(time)
   is a no-op: it builds nothing, throws nothing and leaves every field of
   the Ribbon as it was. *)
C23_DisposedUntilBuilt ==
    [][ /\ call'.op = "dispose" =>
              /\ meshSegments' = <<>>
              /\ scene' = <<>>
              /\ lastPoints' = <<>>
        /\ (lastBuilt.disposed /\ call'.op = "update") =>
              /\ ~call'.built
              /\ ~call'.threw
              /\ UNCHANGED <<meshSegments, scene, lastPoints, lastWidth, geometries,
                             materials, normalCache>> ]_vars

(* C24: the stored points are none or at least two, and there are stored
   points exactly when a build has run to completion and dispose() has not
   been called since. *)
C24_StoredPoints ==
    /\ Len(lastPoints) # 1
    /\ lastPoints # <<>> <=> (lastBuilt.done /\ ~lastBuilt.disposed)

(* ---------------------------------------------------------------------- *)
(* Layer cycling                                                           *)

(* the steps that are a call of tick: the only ones that read the clock *)
TickStep == clock' # clock

Cycling(tm) == tm.isKTX2 /\ tm.layerCount >= 2

LayerInRange(tm) ==
    /\ 0 <= tm.currentLayer
    /\ tm.currentLayer <= tm.layerCount - 1
    /\ tm.direction \in {1, -1}
    /\ tm.sharedLayerUniform = tm.currentLayer

(* C25: in KTX2 mode with at least 2 layers the current layer stays within
   0..layerCount-1 after every call, the direction is +1 or -1 and the
   shared layer uniform equals the current layer; a tick of a manager that
   is not in KTX2 mode or has at most 1 layer changes nothing. *)
C25_LayerInRange ==
    [][ /\ Cycling(manager') => LayerInRange(manager')
        /\ (TickStep /\ ~Cycling(manager)) => manager' = manager ]_vars

(* a tick has brought the ping-pong to its last layer *)
C25_Witness ==
    /\ call.op = "tick"
    /\ manager.variant = "planes"
    /\ Cycling(manager)
    /\ manager.layerCount = MaxDepth
    /\ manager.currentLayer = manager.layerCount - 1
    /\ manager.sharedLayerUniform = manager.currentLayer
    /\ manager.direction = -1

(* the frame interval 1000 / fps has passed between the last recorded time
   and nowMs; a recorded time of 0 stands for none *)
FrameDue(tm, nowMs) ==
    /\ tm.lastFrameTime # 0
    /\ (nowMs - tm.lastFrameTime) * tm.fps >= 1000

(* the layer and direction that follow in the cycle of the variant *)
Successor(tm) ==
    IF tm.variant = "waves"
    THEN [layer |-> (tm.currentLayer + 1) % tm.layerCount, direction |-> tm.direction]
    ELSE [layer |-> tm.currentLayer + tm.direction,
          direction |-> IF tm.currentLayer + tm.direction = tm.layerCount - 1 THEN -1
                        ELSE IF tm.currentLayer + tm.direction = 0 THEN 1
                        ELSE tm.direction]

(* C26: a tick of a cycling manager advances when the frame interval has
   passed since the last recorded time and not otherwise (the first tick
   only records its time); an advance moves to the next layer of the
   cycle, 0,1,...,L-1,0,... for waves and 0,1,...,L-1,L-2,...,1,0,1,... for
   planes: it always changes the layer, by one step for planes, and the
   direction changes only on arrival at layer 0 or L-1. *)
C26_Cadence ==
    [][ (TickStep /\ Cycling(manager)) =>
            IF FrameDue(manager, clock')
            THEN /\ manager'.currentLayer = Successor(manager).layer
                 /\ manager'.direction = Successor(manager).direction
                 /\ manager'.currentLayer # manager.currentLayer
                 /\ manager'.currentLayer \in 0..(manager.layerCount - 1)
                 /\ manager.variant = "planes" =>
                        Abs(manager'.currentLayer - manager.currentLayer) = 1
                 /\ manager'.direction # manager.direction =>
                        manager'.currentLayer \in {0, manager.layerCount - 1}
                 /\ manager'.lastFrameTime = clock'
            ELSE /\ manager'.currentLayer = manager.currentLayer
                 /\ manager'.direction = manager.direction
                 /\ manager'.lastFrameTime =
                        IF manager.lastFrameTime = 0 THEN clock' ELSE manager.lastFrameTime
      ]_vars

(* the ping-pong has turned round at the last layer and stepped back *)
C26_Witness ==
    /\ call.op = "tick"
    /\ manager.variant = "planes"
    /\ Cycling(manager)
    /\ manager.layerCount = 3
    /\ manager.currentLayer = 1
    /\ manager.direction = -1
    /\ manager.lastFrameTime = clock

(* the array materials that have loaded, in this load or the one before *)
LoadedArrays(tm) ==
    {tm.materials[i] : i \in DOMAIN tm.materials} \cup
    {tm.promises[i] : i \in DOMAIN tm.promises}

(* C27: in KTX2 mode the layer count is at most the depth of every array
   texture that has loaded, so the layer shown exists in each of them. *)
C27_MinDepth ==
    manager.isKTX2 =>
        \A m \in LoadedArrays(manager) :
            m.kind = "ShaderMaterial" =>
                /\ manager.layerCount <= m.depth
                /\ manager.sharedLayerUniform < m.depth

(* ---------------------------------------------------------------------- *)
(* Pointer capture                                                         *)

DistanceSquared(p, q) == (p[1] - q[1]) * (p[1] - q[1]) + (p[2] - q[2]) * (p[2] - q[2])

(* consecutive points are at least minPointDistance apart *)
Spaced(points, minPointDistance) ==
    \A i \in 1..(Len(points) - 1) :
        /\ DistanceSquared(points[i], points[i + 1]) >= minPointDistance * minPointDistance
        /\ points[i] # points[i + 1]

(* C28: the captured points of the stroke are consecutively at least
   minPointDistance (3 px) apart, and so are the points of every stroke
   handed to onDrawingComplete, which has at least 2 of them. *)
C28_PointsSpaced ==
    /\ drawingManager.minPointDistance = 3
    /\ Spaced(drawingManager.points, 3)
    /\ Spaced(call.completed, 3)
    /\ Len(call.completed) # 1

(* a stroke of MaxStroke points, not all on one row, was handed over *)
C28_Witness ==
    /\ call.op = "pointerup"
    /\ Len(call.completed) = MaxStroke
    /\ call.completed = drawingManager.points
    /\ call.completed[1][2] # call.completed[2][2]

(* C29: dispose() leaves no pointer listener on the canvas, and with none
   left no event changes the captured points or calls onDrawingComplete. *)
C29_ListenersRemoved ==
    [][ /\ call'.op = "dispose" => drawingManager'.listeners = {}
        /\ drawingManager.listeners = {} =>
              /\ drawingManager'.points = drawingManager.points
              /\ call'.completed = <<>> ]_vars

(* ---------------------------------------------------------------------- *)
(* Replay                                                                  *)

(* C30: every captured entry carries its points under the field that
   replayDrawingAtIndex reads, no handler of the history throws, the
   history holds at most 20 drawings and, once one is selected, the
   history index lies within 0..capturedDrawings.length-1. *)
C30_Replayable ==
    /\ \A i \in DOMAIN history.capturedDrawings :
           history.capturedDrawings[i].points.defined
    /\ ~call.threw
    /\ Len(history.capturedDrawings) <= historyLimit
    /\ history.capturedDrawings # <<>> =>
           history.historyIndex \in 0..(Len(history.capturedDrawings) - 1)
====
